---- MODULE Spec2Model ----
(***************************************************************************)
(* Model of DeviceManager (libraries/bluetooth/src/DeviceManager.ts): its  *)
(* single-flight command pump, its teardown, discovery and reconnection,   *)
(* and of the unlock handshake of a Blind.                                 *)
(*                                                                         *)
(* One step of the model is one run-to-completion turn of the Node event   *)
(* loop: the synchronous part of a call up to its first suspending await,  *)
(* or the continuation that runs when an awaited promise settles.          *)
(***************************************************************************)
EXTENDS Integers, Sequences, FiniteSets

\* ------------------------------------------------------------------ bounds
\* Addresses of the configured devices.
MaxDevices == 2
\* Number of executeCommand() calls explored.
MaxCommands == 3
\* Largest maxRetries a caller passes (the repository passes 0 and 5).
MaxRetriesCap == 2
\* Number of dispose() calls explored.
MaxDisposeCalls == 1
\* Number of failing invocations explored.
MaxFailures == 2

\* ------------------------------------------------------------------ state
VARIABLES
    bluetoothCommandQueue, \* Array<IQueuedBluetoothCommand>
    isExecuting,           \* boolean
    isDisposed,            \* boolean
    inFlight,              \* queue items whose command() promise is pending
                           \* (dequeue() frames suspended at the await)
    pendingImmediates,     \* setImmediate callbacks not yet run
    commandCount,          \* executeCommand() calls made so far
    disposeCalls,          \* dispose() calls made so far
    disposedAt,            \* history: commandCount at the latest dispose() call,
                           \* -1 before the first
    log,                   \* history: invocations and their outcomes, in order
    recording              \* whether the history is kept

Addresses == 1..MaxDevices

\* A count of Blind objects per kind, none created.
NoBlinds == [live |-> 0, closing |-> 0, stale |-> 0, orphaned |-> 0]

vars == <<bluetoothCommandQueue, isExecuting, isDisposed, inFlight,
          pendingImmediates, commandCount, disposeCalls, disposedAt, log,
          recording>>

\* DeviceManager outside the pump, and the adapter it drives.
VARIABLES
    devices,               \* DeviceManager.devices: the registered addresses
    bluetooth,             \* DeviceManager.bluetooth: "defined" or "undefined"
    adapter,               \* DeviceManager.adapter: "undefined", or the
                           \* adapter's own state: "ready" or "disposed"
    discovering,           \* the adapter's Discovering property
    disposeFrames,         \* dispose() calls: where each one is suspended
    tornDown               \* history: the child teardowns called so far

managerVars == <<devices, bluetooth, adapter, discovering, disposeFrames,
                 tornDown>>

\* Discovery, reconnection and the Blind objects the application creates.
VARIABLES
    connectRetryCounts,    \* DeviceManager._connectRetryCounts, 0 for no entry
    maxConnectRetries,     \* options.maxConnectRetries
    desiredDevices,        \* DeviceManager.desiredDevices
    availableDeviceUuids,  \* Adapter.availableDeviceUuids
    blinds,                \* per address, the Blind objects created and not
                           \* disposed: live (their Device delivers events),
                           \* closing ("disconnect" emitted, the application's
                           \* dispose() pending), stale (closing, their Device
                           \* already disposed), orphaned (their Device
                           \* disposed under them)
    pendingAdded,          \* onDeviceAdded() calls made by adapter events,
                           \* awaiting getDevice() and trust()
    commandAddress,        \* the address each Reconnect command closes over
    waitFrames,            \* waitUntilDevicesFound() calls
    adapterChanges,        \* devices BlueZ has added or removed so far
    scheduled,             \* history: reconnects scheduled per address
    notified               \* history: the addresses "device-added" was
                           \* delivered for

lifecycleVars == <<connectRetryCounts, maxConnectRetries, desiredDevices,
                   availableDeviceUuids, blinds, pendingAdded, commandAddress,
                   waitFrames, adapterChanges, scheduled, notified>>

\* One Blind, its Device and the unlock handshake.
VARIABLES
    blind,                 \* the Blind's fields: isUnlocked, passkey,
                           \* unlockAttempts, unlockTimer, blindPasskey,
                           \* maxUnlockRetries, and the characteristic
                           \* handles that are bound (characteristics)
    parent,                \* its Device: connected, disposed, and the
                           \* characteristics its GATT server lists (gatt)
    unlockFrames,          \* what is pending for the Blind: the position of
                           \* onParentConnect() (scan) and the characteristics
                           \* its loop has passed (at), the unlock() calls past
                           \* their await of setPasskey() (resumable), what
                           \* each queued command resolves (kinds), the
                           \* Passkey notification in flight (signal), the
                           \* application's "disconnect" handler (closing)
    observed               \* history: the latest notification delivered
                           \* (last), the events the latest step emitted
                           \* (emitted), and since the latest connect: the
                           \* unlock attempts started (attempts), whether a
                           \* matching echo was delivered (echoed), whether
                           \* "unlock-failed" was emitted (failed), whether
                           \* the binding threw (bindingFailed), whether the
                           \* write of the first attempt was dropped
                           \* (writeDropped), whether disconnect() was called
                           \* (disconnectCalled); and for good: the unlock
                           \* attempts with the commands each queued
                           \* (unlocks), the attempts past their await of
                           \* setPasskey() in the order they resume (ready),
                           \* the commands that resolved (completed), what
                           \* was written to the Passkey characteristic
                           \* (writes)

unlockVars == <<blind, parent, unlockFrames, observed>>

\* The metrics a Blind stores, and the notification it handles.
VARIABLES
    metrics,               \* the Blind's stored metric fields: rawSensorState,
                           \* the seven sensor values, rawStatusState, the
                           \* status flags
    delivery               \* the latest call: what was called (kind), for
                           \* which characteristic (name), its buffer, the
                           \* buffer of the call before it for the same
                           \* characteristic (previous; last for a handler,
                           \* notified for a notification), the stored
                           \* metrics it found (before), what the parser
                           \* returned (decoded), the events emitted, each
                           \* with the stored metrics its listeners saw
                           \* (events), and the number of calls (handled)

metricVars == <<metrics, delivery>>

\* The Application's command side: the Blinds it can reach and the MQTT
\* messages it has received.
VARIABLES
    registered,            \* deviceManager.devices as the Application reads
                           \* it: per registered address a Blind (its Angle
                           \* characteristic bound or not, unlocked or not)
    inbound,               \* the latest MQTT message: its topic and text, the
                           \* arguments setAngle was called with (none if it
                           \* was not called) and how the handler ended; and
                           \* the number of messages so far
    writes                 \* per command queued by setAngle, in order: what
                           \* the command does when the pump calls it

coverVars == <<registered, inbound, writes>>

\* The Application's availability side, and the process it runs in.
VARIABLES
    application,           \* the Application's fields isDisposed,
                           \* isMqttConnected and mqttClient ("defined" or
                           \* "undefined"); where its dispose() is suspended
                           \* (pc, at); whether MQTT was connected when
                           \* dispose() was called; the connection events so far
    process,               \* Main: shuttingDown, how the process exited
                           \* ("none" while it runs), and the numbers of
                           \* signals received and of shutdowns run
    created,               \* per configured address, the Blind the Application
                           \* created for it: "none", "connecting", "locked",
                           \* "unlocked", "closing" (its "disconnect" handler
                           \* awaits the publication), "kept" (the handler
                           \* was rejected) or "disposed"
    availability,          \* history: per configured address the payloads
                           \* published on its availability topic, in order
    shutdownLog            \* history: what the shutdown has done, in order

appVars == <<application, process, created, availability, shutdownLog>>

\* A bus proxy (BusHelper) and the calls made to it.
VARIABLES
    helper,                \* the BusHelper's fields: its options, _isDisposed,
                           \* _isInitialized, whether _objectProxy and
                           \* _propsProxy are defined, the number of
                           \* "PropertiesChanged" listeners on _propsProxy
                           \* (propsListeners) and of listeners on the helper
                           \* itself (listeners)
    calls,                 \* the calls suspended at an await: per call its
                           \* operation and what the helper was when it was made
    answer                 \* the latest call that ended: its operation, how it
                           \* ended, the error the bus raised and the error
                           \* the caller got, what the helper was when it was
                           \* made; and the number of calls made so far

\* The objects of node-ble that own one another.
VARIABLES
    owned                  \* the Adapter (its flags, and whether its dispose()
                           \* has completed) and, per device address, the
                           \* Device the Adapter made for it, its GattServer,
                           \* a GattService and a GattCharacteristic: whether
                           \* the object exists (created), whether its parent
                           \* holds it (made), its _isDisposed and
                           \* _isInitialized, where its initialize() is (init)
                           \* and how far its dispose() is (disposal)

\* The list-adapters subcommand and the DeviceManager it uses.
VARIABLES
    listing                \* the object paths BlueZ exposes (nodes); whether
                           \* the DeviceManager's Bluetooth is initialized;
                           \* where onExecute() is (pc); what its
                           \* getAdapters() gave (outcome, adapters, error)
                           \* and the lines it printed

\* A notifying characteristic of a connected Blind.
VARIABLES
    subscription           \* BlueZ's Connected property and the number of
                           \* "connect" signals so far; the Blind ("live",
                           \* "closing" while the Application publishes
                           \* "offline", "kept" if that was rejected,
                           \* "disposed"); whether the Blind holds the
                           \* characteristic (bound); the "value-changed"
                           \* listeners on the GattCharacteristic and the
                           \* "properties-changed" listeners on its helper;
                           \* the StartNotify calls awaited (starts) and
                           \* whether a StopNotify is (stopping); whether the
                           \* characteristic is disposed; how many times the
                           \* latest notification reached the Blind
                           \* (deliveries) and the notifications so far

\* One Blind the Application created for an address, and what is pending
\* for it.
VARIABLES
    instance               \* its address; its Device's connection and the
                           \* "connect" signals so far; the listeners on the
                           \* Blind, as <<event, handler>>; whether its Device
                           \* is disposed; its dispose() calls, each where it
                           \* is suspended (disposes); the onDeviceDispose
                           \* calls awaiting removeDevice() (handlers); the
                           \* "offline" publications awaited (publishing);
                           \* Application.isDisposed (shuttingDown); where
                           \* DeviceManager.dispose() is (managerDispose);
                           \* history: the reconnectDevice() calls it
                           \* triggered (reconnects), the onDeviceDispose
                           \* calls that found the manager disposed
                           \* (skipped), whether removeDevice() ran before a
                           \* dispose() (unregistered), whether a disconnect
                           \* was signalled while it was registered, no
                           \* shutdown begun and the cap not exhausted
                           \* (signalled)

busVars == <<helper, calls, answer, owned, listing, subscription, instance>>

outsidePump ==
    <<managerVars, lifecycleVars, unlockVars, metricVars, coverVars, appVars,
      busVars>>
outsideTeardown ==
    <<lifecycleVars, unlockVars, metricVars, coverVars, appVars, busVars>>
outsideUnlock ==
    <<managerVars, lifecycleVars, metricVars, coverVars, appVars, busVars>>
outsideBridge == <<unlockVars, metricVars, coverVars, appVars, busVars>>
outsideMetrics ==
    <<vars, managerVars, lifecycleVars, unlockVars, coverVars, appVars,
      busVars>>
outsideCover ==
    <<managerVars, lifecycleVars, unlockVars, metricVars, appVars, busVars>>
outsideApplication ==
    <<managerVars, lifecycleVars, unlockVars, metricVars, coverVars, busVars>>
outsideBus ==
    <<vars, managerVars, lifecycleVars, unlockVars, metricVars, coverVars,
      appVars>>

\* ------------------------------------------------------------ error values
\* An error message is a sequence of words.
NotConnected == <<"Not", "connected">>
DeviceBusy == <<"Device", "busy">>

\* Messages a failing command rejects with.
ErrorMessages ==
    { DeviceBusy,
      <<"Operation", "failed", "Not", "connected">> }

\* String.prototype.includes
Includes(msg, pat) ==
    \E i \in 1..(Len(msg) - Len(pat) + 1) :
        SubSeq(msg, i, i + Len(pat) - 1) = pat

\* ---------------------------------------------------------------- history
Event(ev, item, msg) ==
    [ev |-> ev, id |-> item.id, maxRetries |-> item.maxRetries,
     retryCount |-> item.retryCount, msg |-> msg]

Record(lg, e) == IF recording THEN Append(lg, e) ELSE lg

IsFail(e) == e.ev = "fail"
IsInvoke(e) == e.ev = "invoke"

\* The failures so far, and the invocations so far, in order.
Failures == SelectSeq(log, IsFail)
Invocations == SelectSeq(log, IsInvoke)

\* ------------------------------------------------------- the pump's pieces
\* executeCommand: { ...command, retryCount: 0 }
QueueItem(id, maxRetries) ==
    [id |-> id, maxRetries |-> maxRetries, retryCount |-> 0]

\* Variant: the item is put in front of the queue (unshift for push).
Enqueue_AtHead(q, item) == <<item>> \o q

\* executeCommand: bluetoothCommandQueue.push(item)
Enqueue(q, item) == Append(q, item)

\* Variant: the isExecuting guard is missing.
CanStart_IgnoresExecuting(disposed, executing, q) ==
    /\ ~disposed
    /\ Len(q) > 0

\* Variant: the isDisposed guard is missing.
CanStart_IgnoresDisposed(disposed, executing, q) ==
    /\ ~executing
    /\ Len(q) > 0

\* dequeue: the guards in front of an invocation
CanStart(disposed, executing, q) ==
    /\ ~disposed
    /\ ~executing
    /\ Len(q) > 0

\* dequeue: queueItem.retryCount++
IncrementRetryCount(item) ==
    [item EXCEPT !.retryCount = item.retryCount + 1]

\* Variant: the message is compared for equality instead of searched.
IsConnectionLost_ExactMatch(msg) == msg = NotConnected

\* dequeue, catch: !e.message.includes("Not connected")
IsConnectionLost(msg) == Includes(msg, NotConnected)

\* Variant: the retry test is retryCount <= maxRetries.
ShouldRetry_Inclusive(item, msg) ==
    /\ ~Includes(msg, NotConnected)
    /\ item.retryCount <= item.maxRetries

\* dequeue, catch: whether the failed item goes back to the queue
ShouldRetry(item, msg) ==
    /\ ~IsConnectionLost(msg)
    /\ item.retryCount < item.maxRetries

\* Variant: the failed item is put at the back of the queue (push for unshift).
Requeue_AtTail(q, item) == Append(q, item)

\* dequeue, catch: bluetoothCommandQueue.unshift(queueItem)
Requeue(q, item) == <<item>> \o q

\* Variant: no re-entry is scheduled.
ScheduleReentry_Missing(n) == n

\* dequeue: setImmediate(...) after the try statement
ScheduleReentry(n) == n + 1

\* dispose: bluetoothCommandQueue.length = 0
ClearQueue(q) == <<>>

\* dequeue(), from its entry to the await of command() (or to its return).
\* q and lg are the queue and the history at the time of the call.
Dequeue(q, lg) ==
    IF CanStart(isDisposed, isExecuting, q)
    THEN LET queueItem == IncrementRetryCount(Head(q)) IN
         /\ isExecuting' = TRUE
         /\ bluetoothCommandQueue' = Tail(q)
         /\ inFlight' = inFlight \cup {queueItem}
         /\ log' = Record(lg, Event("invoke", queueItem, <<>>))
    ELSE /\ bluetoothCommandQueue' = q
         /\ log' = lg
         /\ UNCHANGED <<isExecuting, inFlight>>

\* ----------------------------------------------------------------- actions
Constructed ==
    /\ bluetoothCommandQueue = <<>>
    /\ isExecuting = FALSE
    /\ isDisposed = FALSE
    /\ inFlight = {}
    /\ pendingImmediates = 0
    /\ commandCount = 0
    /\ disposeCalls = 0
    /\ disposedAt = -1
    /\ log = <<>>

\* Nothing discovered, no reconnect made, no Blind created; the retry cap is
\* the one ListAdaptersAction passes.
BridgeConstructed ==
    /\ connectRetryCounts = [a \in Addresses |-> 0]
    /\ maxConnectRetries = 0
    /\ desiredDevices = {}
    /\ availableDeviceUuids = {}
    /\ blinds = [a \in Addresses |-> NoBlinds]
    /\ pendingAdded = {}
    /\ commandAddress = <<>>
    /\ waitFrames = <<>>
    /\ adapterChanges = 0
    /\ scheduled = [a \in Addresses |-> 0]
    /\ notified = {}

\* new DeviceManager(...): no adapter yet, nothing registered.
ManagerConstructed ==
    /\ devices = {}
    /\ bluetooth = "defined"
    /\ adapter = "undefined"
    /\ discovering = FALSE
    /\ disposeFrames = <<>>
    /\ tornDown = {}

\* A field that holds undefined.
Undefined == <<"undefined">>

\* The characteristics a Blind keeps a handle of, in the order the GATT server
\* lists them.
Characteristics ==
    <<"Ack", "Angle", "Name", "Passkey", "Sensors", "Status", "VersionInfo">>

Range(seq) == {seq[i] : i \in DOMAIN seq}

\* A Device not connected, whose GATT server lists the characteristics gatt.
NewDevice(gatt) == [connected |-> FALSE, disposed |-> FALSE, gatt |-> gatt]

\* Whether a handle of the Blind is bound.
Bound(b, name) == name \in b.characteristics

\* new Blind(..., {passkey, maxUnlockRetries}): locked, no passkey seen, no
\* attempt made, no timer, no characteristic bound.
NewBlind(passkey, maxUnlockRetries) ==
    [isUnlocked |-> FALSE,
     passkey |-> Undefined,
     unlockAttempts |-> 0,
     unlockTimer |-> FALSE,
     blindPasskey |-> passkey,
     maxUnlockRetries |-> maxUnlockRetries,
     characteristics |-> {}]

\* Nothing is pending for a Blind just constructed.
NoFrames ==
    [scan |-> "none", at |-> 0, resumable |-> 0, kinds |-> <<>>,
     signal |-> Undefined, closing |-> FALSE]

NothingObserved ==
    [last |-> Undefined, emitted |-> <<>>, attempts |-> 0, echoed |-> FALSE,
     failed |-> FALSE, bindingFailed |-> FALSE, writeDropped |-> FALSE,
     disconnectCalled |-> FALSE, unlocks |-> <<>>, ready |-> <<>>,
     completed |-> {}, writes |-> <<>>]

\* A Blind whose Device has not connected yet.
BlindConstructed ==
    /\ blind = NewBlind(<<"A", "B", "0", "1", "2", "3", "4", "5", "6", "7",
                           "8", "9">>, 0)
    /\ parent = NewDevice(Range(Characteristics))
    /\ unlockFrames = NoFrames
    /\ observed = NothingObserved

\* A sensor value is kept in tenths, so that value / 10 is a whole number of
\* them; the initialiser -1 is -10 tenths.
Whole(n) == 10 * n

\* The metric fields of a Blind just constructed. A flag is "true", "false"
\* or "undefined".
NewMetrics ==
    [rawSensorState |-> <<>>,
     batteryLevel |-> Whole(-1),
     batteryTemperature |-> Whole(-1),
     batteryVoltage |-> Whole(-1),
     batteryCharge |-> Whole(-1),
     interiorTemperature |-> Whole(-1),
     illuminance |-> Whole(-1),
     solarPanelVoltage |-> Whole(-1),
     rawStatusState |-> <<>>,
     hasSolar |-> "false",
     isBonding |-> "undefined",
     isCalibrated |-> "undefined",
     isSolarCharging |-> "undefined",
     isUsbCharging |-> "undefined",
     isOverTemperature |-> "undefined",
     isBlindPaired |-> "undefined",
     isPasskeyInvalid |-> "undefined",
     isPasskeyValid |-> "undefined",
     isReversed |-> "undefined",
     isTimeValid |-> "undefined",
     isUnderVoltageLockout |-> "undefined",
     tempOverride |-> "false"]

\* Nothing was called yet.
NoDelivery ==
    [kind |-> "none", name |-> "none", buffer |-> <<>>, previous |-> Undefined,
     last |-> [name \in {"Sensors", "Status"} |-> Undefined],
     notified |-> [name \in {"Sensors", "Status"} |-> Undefined],
     before |-> <<>>, decoded |-> <<>>, events |-> <<>>, handled |-> 0]

MetricsConstructed ==
    /\ metrics = NewMetrics
    /\ delivery = NoDelivery

\* A MAC address as the adapter reports it and the configuration spells it.
MacAddresses == {<<"A", "A", ":", "0", "1">>, <<"B", "B", ":", "0", "2">>}

\* No message was received yet.
NoMessage ==
    [count |-> 0, topic |-> <<>>, text |-> <<>>, mac |-> <<>>,
     angle |-> <<>>, outcome |-> "none"]

\* No Blind is registered and no message was received.
CoverConstructed ==
    /\ registered = <<>>
    /\ inbound = NoMessage
    /\ writes = <<>>

\* new Application(...), started: the MQTT client exists and has not reported
\* its connection yet.
NewApplication ==
    [isDisposed |-> FALSE, isMqttConnected |-> FALSE, mqttClient |-> "defined",
     pc |-> "running", at |-> 0, connectedAtDispose |-> FALSE,
     connectionEvents |-> 0]

\* Main before any signal.
NewProcess ==
    [shuttingDown |-> FALSE, exit |-> "none", signals |-> 0, shutdowns |-> 0,
     requested |-> <<>>, code |-> <<>>]

ApplicationConstructed ==
    /\ application = NewApplication
    /\ process = NewProcess
    /\ created = [mac \in MacAddresses |-> "none"]
    /\ availability = [mac \in MacAddresses |-> <<>>]
    /\ shutdownLog = <<>>

\* The options of the repository's helpers: the default one (GattService,
\* GattServer), the one of Device and GattCharacteristic, the one of
\* Bluetooth.
HelperOptions ==
    { [useProps |-> TRUE, usePropsEvents |-> FALSE],
      [useProps |-> TRUE, usePropsEvents |-> TRUE],
      [useProps |-> FALSE, usePropsEvents |-> FALSE] }

\* new BusHelper(dbus, serviceName, objectName, interfaceName, options)
NewHelper(options) ==
    [options |-> options, isDisposed |-> FALSE, isInitialized |-> FALSE,
     objectProxy |-> FALSE, propsProxy |-> FALSE,
     propsListeners |-> 0, listeners |-> 0]

\* No call has ended.
NoAnswer ==
    [count |-> 0, op |-> "none", outcome |-> "none", raised |-> <<>>,
     msg |-> <<>>, initialized |-> FALSE, disposed |-> FALSE]

\* new DeviceManager(terminal, options): its Bluetooth is constructed and not
\* initialized.
NewListing(nodes) ==
    [nodes |-> nodes, isInitialized |-> FALSE, pc |-> "idle",
     outcome |-> "none", adapters |-> <<>>, error |-> <<>>, printed |-> <<>>]

On(event, handler) == <<event, handler>>

\* _onDeviceAvailable up to its await of blind.connect(): a Blind with the
\* Application's listener and those of addDevice().
NewInstance(a) ==
    [address |-> a, connection |-> "connecting", signals |-> 0,
     listeners |-> {On("disconnect", "_onBlindDisconnected"),
                    On("connect", "onDeviceConnected"),
                    On("disconnect", "onDeviceDisconnected"),
                    On("dispose", "onDeviceDispose")},
     parentDisposed |-> FALSE, disposes |-> <<>>, handlers |-> 0,
     publishing |-> 0, shuttingDown |-> FALSE, managerDispose |-> "none",
     reconnects |-> 0, skipped |-> 0, unregistered |-> FALSE,
     signalled |-> FALSE]

\* A Blind made for an available device, connect() called: nothing is
\* subscribed.
NewSubscription ==
    [connected |-> FALSE, connects |-> 0, blind |-> "live", bound |-> FALSE,
     valueListeners |-> 0, helperListeners |-> 0, starts |-> 0,
     stopping |-> FALSE, isDisposed |-> FALSE, deliveries |-> 0,
     notified |-> 0]

\* An object that does not exist yet.
NoObject ==
    [created |-> FALSE, made |-> FALSE, isDisposed |-> FALSE,
     isInitialized |-> FALSE, init |-> "none", disposal |-> "none"]

\* An initialized Adapter that has made no Device.
NewAdapter ==
    [adapter |-> [NoObject EXCEPT !.created = TRUE, !.isInitialized = TRUE,
                                  !.init = "done"],
     nodes |-> [a \in Addresses |->
                   [device |-> NoObject, server |-> NoObject,
                    service |-> NoObject, characteristic |-> NoObject]]]

\* A helper of a GattCharacteristic, no call made.
BusConstructed ==
    /\ helper = NewHelper([useProps |-> TRUE, usePropsEvents |-> TRUE])
    /\ calls = {}
    /\ answer = NoAnswer
    /\ owned = NewAdapter
    /\ listing = NewListing(<<>>)
    /\ subscription = NewSubscription
    /\ instance = NewInstance(1)

Init ==
    /\ Constructed /\ recording = TRUE /\ ManagerConstructed
    /\ BridgeConstructed /\ BlindConstructed /\ MetricsConstructed
    /\ CoverConstructed
    /\ ApplicationConstructed
    /\ BusConstructed

\* The same program, its history not kept.
InitUnrecorded ==
    /\ Constructed /\ recording = FALSE /\ ManagerConstructed
    /\ BridgeConstructed /\ BlindConstructed /\ MetricsConstructed
    /\ CoverConstructed
    /\ ApplicationConstructed
    /\ BusConstructed

\* executeCommand(command): push, then dequeue()
ExecuteCommand(maxRetries) ==
    /\ commandCount < MaxCommands
    /\ commandCount' = commandCount + 1
    /\ LET item == QueueItem(commandCount + 1, maxRetries) IN
       Dequeue(Enqueue(bluetoothCommandQueue, item), log)
    /\ UNCHANGED <<isDisposed, pendingImmediates, disposeCalls, disposedAt,
                   recording>>

\* The setImmediate callback of dequeue(): dequeue() again
RunImmediate ==
    /\ pendingImmediates > 0
    /\ pendingImmediates' = pendingImmediates - 1
    /\ Dequeue(bluetoothCommandQueue, log)
    /\ UNCHANGED <<isDisposed, commandCount, disposeCalls, disposedAt,
                   recording>>

\* command() resolved: finally, then setImmediate
CommandSucceeds(item) ==
    /\ item \in inFlight
    /\ inFlight' = inFlight \ {item}
    /\ isExecuting' = FALSE
    /\ pendingImmediates' = ScheduleReentry(pendingImmediates)
    /\ log' = Record(log, Event("success", item, <<>>))
    /\ UNCHANGED <<bluetoothCommandQueue, isDisposed, commandCount,
                   disposeCalls, disposedAt, recording>>

\* command() rejected with an error: catch, finally, then setImmediate
CommandFails(item, msg) ==
    /\ item \in inFlight
    /\ Len(Failures) < MaxFailures
    /\ inFlight' = inFlight \ {item}
    /\ bluetoothCommandQueue' =
           IF ShouldRetry(item, msg)
           THEN Requeue(bluetoothCommandQueue, item)
           ELSE bluetoothCommandQueue
    /\ isExecuting' = FALSE
    /\ pendingImmediates' = ScheduleReentry(pendingImmediates)
    /\ log' = Record(log, Event("fail", item, msg))
    /\ UNCHANGED <<isDisposed, commandCount, disposeCalls, disposedAt,
                   recording>>

\* dispose(): the latch and the queue, set before its first await. The
\* teardown that follows (discovery, devices, adapter, bus) reads and writes
\* none of the pump's state.
Dispose ==
    /\ disposeCalls < MaxDisposeCalls
    /\ disposeCalls' = disposeCalls + 1
    /\ isDisposed' = TRUE
    /\ bluetoothCommandQueue' = ClearQueue(bluetoothCommandQueue)
    /\ disposedAt' = commandCount
    /\ UNCHANGED <<isExecuting, inFlight, pendingImmediates, commandCount, log,
                   recording>>

Settle ==
    \E item \in inFlight :
        \/ CommandSucceeds(item)
        \/ \E msg \in ErrorMessages : CommandFails(item, msg)

Next ==
    \/ (\E m \in 0..MaxRetriesCap : ExecuteCommand(m)) /\ UNCHANGED outsidePump
    \/ RunImmediate /\ UNCHANGED outsidePump
    \/ Settle /\ UNCHANGED outsidePump
    \/ Dispose /\ UNCHANGED outsidePump

Spec == Init /\ [][Next]_vars

\* Node runs every setImmediate callback; a command's promise settles.
FairSpec ==
    /\ InitUnrecorded
    /\ [][Next]_vars
    /\ WF_vars(RunImmediate)
    /\ WF_vars(Settle)

\* ------------------------------------------------------- reading the state
Max(a, b) == IF a >= b THEN a ELSE b

Queued(id) ==
    \E k \in DOMAIN bluetoothCommandQueue : bluetoothCommandQueue[k].id = id

Running(id) == \E item \in inFlight : item.id = id

InvokeCount(id) ==
    Cardinality({i \in DOMAIN log : log[i].ev = "invoke" /\ log[i].id = id})

SuccessCount(id) ==
    Cardinality({i \in DOMAIN log : log[i].ev = "success" /\ log[i].id = id})

\* A failure with an error whose message does not contain "Not connected"
NonConnectionFailure(e) == e.ev = "fail" /\ ~Includes(e.msg, NotConnected)

\* A failure with an error whose message contains "Not connected"
ConnectionFailure(e) == e.ev = "fail" /\ Includes(e.msg, NotConnected)

\* The step in which the in-flight item fails with msg
FailsWith(item, msg) == log' = Append(log, Event("fail", item, msg))


\* The step in which dequeue() starts a command
StartsCommand == Len(Invocations') > Len(Invocations)

\* -------------------------------------------------------------------- C1
\* C1: at every moment at most one queued command is being invoked: no
\* command is started while a command started earlier has not settled.
C1_SingleFlight == Cardinality(inFlight) <= 1

\* A command is in flight while another waits and a deferred re-entry of the
\* pump is pending.
C1_Witness ==
    /\ Cardinality(inFlight) = 1
    /\ Len(bluetoothCommandQueue) >= 1
    /\ pendingImmediates > 0

\* -------------------------------------------------------------------- C2
\* C2: when no command has failed, the commands are invoked in exactly the
\* order of their executeCommand() calls (ids number the calls in order).
C2_FifoUnderSuccess ==
    Len(Failures) = 0 =>
        \A k \in DOMAIN Invocations : Invocations[k].id = k

\* Three commands were invoked and none failed.
C2_Witness == Len(Failures) = 0 /\ Len(Invocations) >= 3

\* -------------------------------------------------------------------- C3
\* C3: after a failure with a non-connection error while retryCount is below
\* maxRetries, the next command invoked is the one that failed.
C3_RetryIsNext ==
    \A i \in DOMAIN log :
        (NonConnectionFailure(log[i]) /\ log[i].retryCount < log[i].maxRetries) =>
            \A j \in (i + 1)..Len(log) :
                (/\ log[j].ev = "invoke"
                 /\ \A k \in (i + 1)..(j - 1) : log[k].ev # "invoke")
                    => log[j].id = log[i].id

\* The failed command has just been invoked again while another one waits.
C3_Witness ==
    /\ Len(log) >= 2
    /\ NonConnectionFailure(log[Len(log) - 1])
    /\ log[Len(log)].ev = "invoke"
    /\ Len(bluetoothCommandQueue) >= 1

\* -------------------------------------------------------------------- C4
\* C4: a command with maxRetries = 2 whose first two invocations failed with
\* "Device busy" is retried: it is queued, in flight, or was invoked a third
\* time (the manager not being disposed), and it succeeds at most once.
C4_ThirdInvocation ==
    \A i \in DOMAIN log :
        (/\ ~isDisposed
         /\ log[i].ev = "fail"
         /\ log[i].msg = DeviceBusy
         /\ log[i].maxRetries = 2
         /\ log[i].retryCount = 2)
            => (/\ \/ Queued(log[i].id)
                   \/ Running(log[i].id)
                   \/ InvokeCount(log[i].id) >= 3
                /\ SuccessCount(log[i].id) <= 1)

\* -------------------------------------------------------------------- C5
\* C5: retryCount is incremented once before each invocation, so it equals
\* the number of invocations of the command; a command is invoked at most
\* max(1, maxRetries) times; after a non-connection failure the command is
\* back in the queue if and only if retryCount < maxRetries.
C5_Counts ==
    /\ \A k \in DOMAIN bluetoothCommandQueue :
           bluetoothCommandQueue[k].retryCount =
               InvokeCount(bluetoothCommandQueue[k].id)
    /\ \A item \in inFlight : item.retryCount = InvokeCount(item.id)
    /\ \A i \in DOMAIN log :
           log[i].ev = "invoke" =>
               InvokeCount(log[i].id) <= Max(1, log[i].maxRetries)

C5_RequeueRule ==
    \A item \in inFlight : \A msg \in ErrorMessages :
        (FailsWith(item, msg) /\ ~Includes(msg, NotConnected)) =>
            ((\E k \in DOMAIN bluetoothCommandQueue' :
                  bluetoothCommandQueue'[k] = item)
             <=> item.retryCount < item.maxRetries)

C5_RetryBudget == [](C5_Counts) /\ [][C5_RequeueRule]_vars

\* A command with maxRetries >= 2 used up its invocations and was dropped.
C5_Witness ==
    \E i \in DOMAIN log :
        /\ NonConnectionFailure(log[i])
        /\ log[i].maxRetries >= 2
        /\ log[i].retryCount = log[i].maxRetries
        /\ ~Queued(log[i].id)
        /\ ~isDisposed

\* -------------------------------------------------------------------- C6
\* C6: a command that fails with "Not connected" is dropped whatever its
\* retryCount and maxRetries: the queue is left as it was, isExecuting is
\* cleared, a re-entry of the pump is scheduled, and the command is never
\* invoked again.
C6_DropStep ==
    \A item \in inFlight : \A msg \in ErrorMessages :
        (FailsWith(item, msg) /\ Includes(msg, NotConnected)) =>
            /\ bluetoothCommandQueue' = bluetoothCommandQueue
            /\ isExecuting' = FALSE
            /\ pendingImmediates' = pendingImmediates + 1

C6_NeverAgain ==
    \A i \in DOMAIN log :
        ConnectionFailure(log[i]) =>
            \A j \in (i + 1)..Len(log) :
                log[j].ev = "invoke" => log[j].id # log[i].id

C6_NotConnectedDrops == [](C6_NeverAgain) /\ [][C6_DropStep]_vars

\* A command with retries left failed with "Not connected", and the pump
\* went on to invoke another command.
C6_Witness ==
    \E i \in DOMAIN log :
        /\ ConnectionFailure(log[i])
        /\ log[i].retryCount < log[i].maxRetries
        /\ \E j \in (i + 1)..Len(log) : log[j].ev = "invoke"

\* -------------------------------------------------------------------- C7
\* C7: the pump never stalls. While the manager is not disposed, a waiting
\* command always has a command in flight or a re-entry pending in front of
\* it, and every queued command is eventually invoked (or the manager is
\* disposed, which drops it).
C7_NoStall ==
    (~isDisposed /\ Len(bluetoothCommandQueue) > 0)
        => (isExecuting \/ pendingImmediates > 0)

C8_DisposeWaitsForInFlight ==
    [][(disposeCalls' > disposeCalls /\ inFlight # {})
           => bluetoothCommandQueue' = bluetoothCommandQueue]_vars

\* -------------------------------------------------------------------- C9
\* C9: once dispose() has been called the pump starts no command.
C9_NoStartAfterDispose == [][isDisposed => ~StartsCommand]_vars

\* After dispose() a command waits in the queue, nothing is in flight and no
\* re-entry is pending: the pump has been asked and has refused.
C9_Witness ==
    /\ isDisposed
    /\ Len(bluetoothCommandQueue) > 0
    /\ inFlight = {}
    /\ pendingImmediates = 0

\* ------------------------------------------------------------------- C10
\* C10: once dispose() has run the queue holds no command, also when a
\* command was in flight at dispose() and failed afterwards (with no
\* executeCommand() call since the dispose()).
C10_QueueEmptyOnceDisposed ==
    (isDisposed /\ commandCount = disposedAt) => bluetoothCommandQueue = <<>>

\* ================================================================ teardown
\* DeviceManager.dispose() in full: the latch and the queue, then the child
\* teardowns, each awaited. A step is one turn: a call up to its first await,
\* or the continuation run when the awaited child call settles.

\* Number of dispose() calls explored in the teardown.
MaxTeardownCalls == 2

\* An awaited child call returns or throws.
Outcomes == {"returns", "throws"}

\* The children dispose() tears down.
DiscoveryChild == <<"discovery", 0>>
DeviceChild(a) == <<"device", a>>
AdapterChild == <<"adapter", 0>>
BusChild == <<"bus", 0>>

\* Object.keys(this.devices)
RECURSIVE Keys(_)
Keys(S) ==
    IF S = {} THEN <<>>
    ELSE LET a == CHOOSE x \in S : \A y \in S : x <= y
         IN  <<a>> \o Keys(S \ {a})

\* A throw inside dispose() without its try/catch: the call rejects.
Caught_Rethrown(resume) == "rejected"

\* try { await child } catch (e) { log }: the call resumes after the block.
Caught(resume) == resume

\* The device loop from `keys` on: entries whose device is gone are skipped,
\* the first one found is disposed (awaited); after the last key the registry
\* is emptied and adapter?.dispose() is awaited.
RECURSIVE DeviceLoop(_, _)
DeviceLoop(keys, devs) ==
    IF keys = <<>> THEN [pc |-> "adapterDispose", keys |-> <<>>, devices |-> {}]
    ELSE IF Head(keys) \in devs
         THEN [pc |-> "deviceDispose", keys |-> keys, devices |-> devs]
         ELSE DeviceLoop(Tail(keys), devs)

\* A frame of dispose() resumed in the device loop.
ResumeLoop(i, keys, devs) ==
    LET at == DeviceLoop(keys, devs) IN
    /\ disposeFrames' = [disposeFrames EXCEPT ![i] = [pc |-> at.pc, keys |-> at.keys]]
    /\ devices' = at.devices

\* The states dispose() can be called in: constructed only, or started, with
\* some devices registered and discovery running or not.
TeardownInit ==
    /\ Constructed
    /\ recording = FALSE
    /\ bluetooth = "defined"
    /\ adapter \in {"undefined", "ready"}
    /\ discovering \in (IF adapter = "ready" THEN BOOLEAN ELSE {FALSE})
    /\ devices \in (IF adapter = "ready" THEN SUBSET Addresses ELSE {{}})
    /\ disposeFrames = <<>>
    /\ tornDown = {}
    /\ BridgeConstructed
    /\ BlindConstructed
    /\ MetricsConstructed
    /\ CoverConstructed
    /\ ApplicationConstructed
    /\ BusConstructed

\* dispose() up to its first await
DisposeEnters ==
    /\ Len(disposeFrames) < MaxTeardownCalls
    /\ isDisposed' = TRUE
    /\ bluetoothCommandQueue' = ClearQueue(bluetoothCommandQueue)
    /\ IF adapter # "undefined"
       THEN /\ disposeFrames' = Append(disposeFrames,
                                       [pc |-> "getIsDiscovering", keys |-> <<>>])
            /\ UNCHANGED devices
       ELSE LET at == DeviceLoop(Keys(devices), devices) IN
            /\ disposeFrames' = Append(disposeFrames,
                                       [pc |-> at.pc, keys |-> at.keys])
            /\ devices' = at.devices
    /\ UNCHANGED <<bluetooth, adapter, discovering, tornDown>>
    /\ UNCHANGED <<isExecuting, inFlight, pendingImmediates, commandCount,
                   disposeCalls, disposedAt, log, recording>>

\* await this.adapter.getIsDiscovering() settles
GetIsDiscoveringSettles(i, outcome) ==
    /\ disposeFrames[i].pc = "getIsDiscovering"
    /\ IF outcome = "returns" /\ discovering
       THEN /\ disposeFrames' = [disposeFrames EXCEPT ![i].pc = "stopDiscovery"]
            /\ UNCHANGED <<devices, tornDown>>
       ELSE IF outcome = "returns"
       THEN /\ ResumeLoop(i, Keys(devices), devices)
            /\ UNCHANGED tornDown
       ELSE IF Caught("loop") = "loop"
       THEN /\ ResumeLoop(i, Keys(devices), devices)
            /\ tornDown' = tornDown \cup {<<DiscoveryChild, "throws">>}
       ELSE /\ disposeFrames' = [disposeFrames EXCEPT ![i].pc = Caught("loop")]
            /\ tornDown' = tornDown \cup {<<DiscoveryChild, "throws">>}
            /\ UNCHANGED devices
    /\ UNCHANGED <<bluetooth, adapter, discovering>>

\* await this.adapter.stopDiscovery() settles
StopDiscoverySettles(i, outcome) ==
    /\ disposeFrames[i].pc = "stopDiscovery"
    /\ discovering' = IF outcome = "returns" THEN FALSE ELSE discovering
    /\ tornDown' = tornDown \cup {<<DiscoveryChild, outcome>>}
    /\ IF outcome = "returns" \/ Caught("loop") = "loop"
       THEN ResumeLoop(i, Keys(devices), devices)
       ELSE /\ disposeFrames' = [disposeFrames EXCEPT ![i].pc = Caught("loop")]
            /\ UNCHANGED devices
    /\ UNCHANGED <<bluetooth, adapter>>

\* await device.dispose() settles. A device that disposes emits "dispose",
\* on which the manager unregisters it (onDeviceDispose -> removeDevice; no
\* reconnect, isDisposed being set).
DeviceDisposeSettles(i, outcome) ==
    /\ disposeFrames[i].pc = "deviceDispose"
    /\ LET a    == Head(disposeFrames[i].keys)
           devs == IF outcome = "returns" THEN devices \ {a} ELSE devices
       IN  /\ tornDown' = tornDown \cup {<<DeviceChild(a), outcome>>}
           /\ IF outcome = "returns" \/ Caught("loop") = "loop"
              THEN ResumeLoop(i, Tail(disposeFrames[i].keys), devs)
              ELSE /\ disposeFrames' =
                          [disposeFrames EXCEPT ![i].pc = Caught("loop")]
                   /\ devices' = devs
    /\ UNCHANGED <<bluetooth, adapter, discovering>>

\* await this.adapter?.dispose() settles; then the bus: disposed (awaited)
\* when there is one, else only forgotten.
AdapterDisposeSettles(i, outcome) ==
    /\ disposeFrames[i].pc = "adapterDispose"
    /\ adapter = "undefined" => outcome = "returns"
    /\ adapter' = IF adapter # "undefined" /\ outcome = "returns"
                  THEN "disposed" ELSE adapter
    /\ tornDown' = IF adapter # "undefined"
                   THEN tornDown \cup {<<AdapterChild, outcome>>} ELSE tornDown
    /\ IF outcome = "throws" /\ Caught("bus") # "bus"
       THEN /\ disposeFrames' = [disposeFrames EXCEPT ![i].pc = Caught("bus")]
            /\ UNCHANGED bluetooth
       ELSE IF bluetooth = "defined"
       THEN /\ disposeFrames' =
                   [disposeFrames EXCEPT ![i].pc = "bluetoothDispose"]
            /\ UNCHANGED bluetooth
       ELSE /\ disposeFrames' = [disposeFrames EXCEPT ![i].pc = "done"]
            /\ bluetooth' = "undefined"
    /\ UNCHANGED <<devices, discovering>>

\* await this.bluetooth.dispose() settles; finally { bluetooth = undefined }
BluetoothDisposeSettles(i, outcome) ==
    /\ disposeFrames[i].pc = "bluetoothDispose"
    /\ tornDown' = tornDown \cup {<<BusChild, outcome>>}
    /\ bluetooth' = "undefined"
    /\ disposeFrames' = [disposeFrames EXCEPT ![i].pc =
                            IF outcome = "returns" THEN "done"
                            ELSE Caught("done")]
    /\ UNCHANGED <<devices, adapter, discovering>>

\* Some awaited child call of some dispose() settles.
TeardownStep ==
    \E i \in DOMAIN disposeFrames : \E outcome \in Outcomes :
        /\ \/ GetIsDiscoveringSettles(i, outcome)
           \/ StopDiscoverySettles(i, outcome)
           \/ DeviceDisposeSettles(i, outcome)
           \/ AdapterDisposeSettles(i, outcome)
           \/ BluetoothDisposeSettles(i, outcome)
        /\ UNCHANGED <<vars, outsideTeardown>>

TeardownNext ==
    \/ DisposeEnters /\ UNCHANGED outsideTeardown
    \/ TeardownStep

allVars == <<vars, managerVars, lifecycleVars, unlockVars, metricVars,
             coverVars, appVars, busVars>>

\* Every awaited child call settles.
TeardownSpec ==
    /\ TeardownInit
    /\ [][TeardownNext]_allVars
    /\ WF_allVars(TeardownStep)

\* --------------------------------------------------------------------- C11
\* What dispose() leaves of the manager itself.
ManagerState == <<isDisposed, bluetoothCommandQueue, devices, bluetooth>>

Completed(i) == disposeFrames[i].pc = "done"

Called(child) == \E outcome \in Outcomes : <<child, outcome>> \in tornDown

\* A completed dispose(): discovery is stopped unless stopping it threw, no
\* device is registered and each device dispose() found registered was
\* disposed, the adapter, if any, was disposed and the bus was disposed and
\* forgotten.
C11_TornDown ==
    \A i \in DOMAIN disposeFrames :
        /\ disposeFrames[i].pc # "rejected"
        /\ Completed(i) =>
              /\ isDisposed
              /\ bluetoothCommandQueue = <<>>
              /\ discovering => <<DiscoveryChild, "throws">> \in tornDown
              /\ devices = {}
              /\ adapter # "undefined" => Called(AdapterChild)
              /\ adapter = "ready" => <<AdapterChild, "throws">> \in tornDown
              /\ bluetooth = "undefined"
              /\ Called(BusChild)

\* Once a dispose() has completed, nothing a dispose() call does changes the
\* manager.
C11_SecondCallChangesNothing ==
    (\E i \in DOMAIN disposeFrames : Completed(i)) => UNCHANGED ManagerState

MaxConnectRetries == 1
\* Number of waitUntilDevicesFound() calls explored.
MaxWaitCalls == 2
\* Number of devices BlueZ adds or removes.
MaxAdapterChanges == 2

\* haveFoundAllDevices(): every address is a key of this.devices
HaveFoundAllDevices(macAddresses, devs) == macAddresses \subseteq devs

\* reconnectDevice: whether another reconnect is made, count being the entry
\* of _connectRetryCounts (0 for none)
ShouldReconnect(cap, count) ==
    \/ cap = -1
    \/ count = 0
    \/ count <= cap

\* addDevice(): an address already registered is ignored
AddDevice(devs, a) == devs \cup {a}

\* removeDevice(): delete this.devices[device.address]
RemoveDevice(devs, a) == devs \ {a}

\* waitUntilDevicesFound() up to its first await, the adapter being adp, the
\* desired addresses desired and the registry devs: the promise blockUntilFound is resolved at once or
\* polled by an interval; without an adapter the call throws.
WaitUntilDevicesFoundEnters(adp, desired, devs) ==
    /\ Len(waitFrames) < MaxWaitCalls
    /\ LET all == HaveFoundAllDevices(desired, devs) IN
       waitFrames' = Append(waitFrames,
           [pc       |-> IF adp = "undefined" THEN "rejected"
                         ELSE "getIsDiscovering",
            found    |-> all,
            interval |-> ~all,
            result   |-> "none"])

\* reconnectDevice(address), the registry being devs
ReconnectDevice(a, devs) ==
    IF ShouldReconnect(maxConnectRetries, connectRetryCounts[a])
    THEN /\ connectRetryCounts' = [connectRetryCounts EXCEPT ![a] = @ + 1]
         /\ scheduled' = [scheduled EXCEPT ![a] = @ + 1]
         /\ IF adapter # "undefined" /\ a \in availableDeviceUuids
            THEN /\ ExecuteCommand(0)
                 /\ commandAddress' = Append(commandAddress, a)
                 /\ UNCHANGED waitFrames
            ELSE /\ WaitUntilDevicesFoundEnters(adapter, desiredDevices, devs)
                 /\ UNCHANGED <<vars, commandAddress>>
    ELSE UNCHANGED <<connectRetryCounts, scheduled, vars, commandAddress,
                     waitFrames>>

\* Application._onDeviceAvailable up to its await of blind.connect(): a Blind
\* is created and registered unless the address is registered.
OnDeviceAvailable(a) ==
    IF a \in devices
    THEN UNCHANGED <<devices, blinds>>
    ELSE /\ devices' = AddDevice(devices, a)
         /\ blinds' = [blinds EXCEPT ![a].live = @ + 1]

\* A Blind at address a is disposed, bl being the other Blinds: it emits
\* "dispose", on which the manager unregisters the address and reconnects
\* (onDeviceDispose), then it disposes its Device. When that Device is the one
\* the adapter holds (current), the other Blinds on it hear no more of it.
BlindDisposes(a, bl, current) ==
    /\ devices' = RemoveDevice(devices, a)
    /\ blinds' = IF current
                 THEN [bl EXCEPT ![a] = [live     |-> 0,
                                         closing  |-> 0,
                                         stale    |-> @.stale + @.closing,
                                         orphaned |-> @.orphaned + @.live]]
                 ELSE bl
    /\ IF isDisposed
       THEN UNCHANGED <<connectRetryCounts, scheduled, vars, commandAddress,
                        waitFrames>>
       ELSE ReconnectDevice(a, RemoveDevice(devices, a))

\* The manager is constructed; BlueZ knows some of the devices and is
\* discovering or not.
BridgeInit ==
    /\ Constructed
    /\ recording = FALSE
    /\ devices = {}
    /\ bluetooth = "defined"
    /\ adapter = "undefined"
    /\ discovering \in BOOLEAN
    /\ disposeFrames = <<>>
    /\ tornDown = {}
    /\ connectRetryCounts = [a \in Addresses |-> 0]
    /\ maxConnectRetries \in -1..MaxConnectRetries
    /\ desiredDevices = {}
    /\ availableDeviceUuids \in SUBSET Addresses
    /\ blinds = [a \in Addresses |-> NoBlinds]
    /\ pendingAdded = {}
    /\ commandAddress = <<>>
    /\ waitFrames = <<>>
    /\ adapterChanges = 0
    /\ scheduled = [a \in Addresses |-> 0]
    /\ notified = {}
    /\ BlindConstructed
    /\ MetricsConstructed
    /\ CoverConstructed
    /\ ApplicationConstructed
    /\ BusConstructed

\* start({macAddresses}): the adapter is obtained and initialized, then
\* waitUntilDevicesFound() is entered.
Start ==
    /\ bluetooth = "defined" /\ ~isDisposed
    /\ adapter = "undefined"
    /\ desiredDevices' = Addresses
    /\ adapter' = "ready"
    /\ WaitUntilDevicesFoundEnters("ready", Addresses, devices)
    /\ UNCHANGED <<devices, bluetooth, discovering, disposeFrames, tornDown>>
    /\ UNCHANGED <<connectRetryCounts, maxConnectRetries, availableDeviceUuids,
                   blinds, pendingAdded, commandAddress, adapterChanges,
                   scheduled, notified>>
    /\ UNCHANGED vars

\* waitUntilDevicesFound: await this.adapter.getIsDiscovering() settles
WaitGetIsDiscoveringSettles(w, outcome) ==
    /\ waitFrames[w].pc = "getIsDiscovering"
    /\ waitFrames' = [waitFrames EXCEPT ![w].pc =
                         IF outcome = "throws" THEN "rejected"
                         ELSE IF discovering THEN "blocked"
                         ELSE "startDiscovery"]
    /\ UNCHANGED <<managerVars, vars>>
    /\ UNCHANGED <<connectRetryCounts, maxConnectRetries, desiredDevices,
                   availableDeviceUuids, blinds, pendingAdded, commandAddress,
                   adapterChanges, scheduled, notified>>

\* Adapter.startDiscovery(): "device-added" for every available id
SynthesizeDeviceAdded(pending) ==
    pending \cup (availableDeviceUuids \cap desiredDevices)

\* waitUntilDevicesFound: await this.adapter.startDiscovery() settles. It
\* throws when discovery is already in progress; else it raises "device-added"
\* for every available id (onDeviceAdded takes up the desired ones) and BlueZ
\* starts discovering.
StartDiscoverySettles(w, outcome) ==
    /\ waitFrames[w].pc = "startDiscovery"
    /\ discovering => outcome = "throws"
    /\ IF outcome = "returns"
       THEN /\ pendingAdded' = SynthesizeDeviceAdded(pendingAdded)
            /\ notified' = notified \cup availableDeviceUuids
            /\ discovering' = TRUE
            /\ waitFrames' = [waitFrames EXCEPT ![w].pc = "blocked"]
       ELSE /\ waitFrames' = [waitFrames EXCEPT ![w].pc = "rejected"]
            /\ UNCHANGED <<pendingAdded, notified, discovering>>
    /\ UNCHANGED <<devices, bluetooth, adapter, disposeFrames, tornDown, vars>>
    /\ UNCHANGED <<connectRetryCounts, maxConnectRetries, desiredDevices,
                   availableDeviceUuids, blinds, commandAddress,
                   adapterChanges, scheduled>>

\* The interval of blockUntilFound finds every desired device registered.
IntervalTick(w) ==
    /\ waitFrames[w].interval /\ ~waitFrames[w].found
    /\ HaveFoundAllDevices(desiredDevices, devices)
    /\ waitFrames' = [waitFrames EXCEPT ![w].found = TRUE]
    /\ UNCHANGED <<managerVars, vars>>
    /\ UNCHANGED <<connectRetryCounts, maxConnectRetries, desiredDevices,
                   availableDeviceUuids, blinds, pendingAdded, commandAddress,
                   adapterChanges, scheduled, notified>>

\* await timeout(blockUntilFound, discoveryTimeout) settles: resolved, or
\* rejected with a TimeoutError, which is logged; the interval is cleared.
WaitSettles(w) ==
    /\ waitFrames[w].pc = "blocked"
    /\ waitFrames' = [waitFrames EXCEPT ![w] =
           [pc       |-> "returned",
            found    |-> @.found,
            interval |-> FALSE,
            result   |-> IF @.found THEN "found" ELSE "timeout"]]
    /\ UNCHANGED <<managerVars, vars>>
    /\ UNCHANGED <<connectRetryCounts, maxConnectRetries, desiredDevices,
                   availableDeviceUuids, blinds, pendingAdded, commandAddress,
                   adapterChanges, scheduled, notified>>

\* BlueZ adds a device (InterfacesAdded): Adapter._addAvailableDevice raises
\* "device-added" for a new id.
AdapterAddsDevice(a) ==
    /\ adapter = "ready"
    /\ adapterChanges < MaxAdapterChanges
    /\ a \notin availableDeviceUuids
    /\ adapterChanges' = adapterChanges + 1
    /\ availableDeviceUuids' = availableDeviceUuids \cup {a}
    /\ pendingAdded' = IF a \in desiredDevices
                       THEN pendingAdded \cup {a} ELSE pendingAdded
    /\ notified' = notified \cup {a}
    /\ UNCHANGED <<managerVars, vars>>
    /\ UNCHANGED <<connectRetryCounts, maxConnectRetries, desiredDevices,
                   blinds, commandAddress, waitFrames, scheduled>>

\* BlueZ removes a device (InterfacesRemoved): Adapter.removeDevice disposes
\* the Device it holds, which silences it, and raises "device-removed", on
\* which the manager unregisters the address (onDeviceRemoved).
AdapterRemovesDevice(a) ==
    /\ adapter = "ready"
    /\ adapterChanges < MaxAdapterChanges
    /\ a \in availableDeviceUuids
    /\ adapterChanges' = adapterChanges + 1
    /\ availableDeviceUuids' = availableDeviceUuids \ {a}
    /\ blinds' = [blinds EXCEPT ![a] = [live     |-> 0,
                                        closing  |-> 0,
                                        stale    |-> @.stale + @.closing,
                                        orphaned |-> @.orphaned + @.live]]
    /\ devices' = RemoveDevice(devices, a)
    /\ UNCHANGED <<bluetooth, adapter, discovering, disposeFrames, tornDown,
                   vars>>
    /\ UNCHANGED <<connectRetryCounts, maxConnectRetries, desiredDevices,
                   pendingAdded, commandAddress, waitFrames, scheduled,
                   notified>>

\* onDeviceAdded(uuid), called on an adapter event, settles: getDevice() and
\* trust() returned and "device-available" is emitted, or one of them threw,
\* as they do for a device the adapter no longer has.
OnDeviceAddedSettles(a, outcome) ==
    /\ a \in pendingAdded
    /\ a \notin availableDeviceUuids => outcome = "throws"
    /\ pendingAdded' = pendingAdded \ {a}
    /\ IF outcome = "returns"
       THEN OnDeviceAvailable(a)
       ELSE UNCHANGED <<devices, blinds>>
    /\ UNCHANGED <<bluetooth, adapter, discovering, disposeFrames, tornDown,
                   vars>>
    /\ UNCHANGED <<connectRetryCounts, maxConnectRetries, desiredDevices,
                   availableDeviceUuids, commandAddress, waitFrames,
                   adapterChanges, scheduled, notified>>

\* The Reconnect command, await this.onDeviceAdded(address), settles; it
\* never rejects, onDeviceAdded catching what getDevice() and trust() throw.
ReconnectCommandSettles(item, outcome) ==
    /\ CommandSucceeds(item)
    /\ commandAddress[item.id] \notin availableDeviceUuids => outcome = "throws"
    /\ IF outcome = "returns"
       THEN OnDeviceAvailable(commandAddress[item.id])
       ELSE UNCHANGED <<devices, blinds>>
    /\ UNCHANGED <<bluetooth, adapter, discovering, disposeFrames, tornDown>>
    /\ UNCHANGED <<connectRetryCounts, maxConnectRetries, desiredDevices,
                   availableDeviceUuids, pendingAdded, commandAddress,
                   waitFrames, adapterChanges, scheduled, notified>>

\* blind.connect() rejects: the application disposes the Blind.
BlindConnectFails(a) ==
    /\ blinds[a].live > 0
    /\ \E current \in BOOLEAN :
           BlindDisposes(a, [blinds EXCEPT ![a].live = @ - 1], current)
    /\ UNCHANGED <<bluetooth, adapter, discovering, disposeFrames, tornDown>>
    /\ UNCHANGED <<maxConnectRetries, desiredDevices, availableDeviceUuids,
                   pendingAdded, adapterChanges, notified>>

\* The Device of a Blind disconnects: the Blind emits "disconnect", on which
\* the application starts publishing "offline" (_onBlindDisconnected, up to
\* its await) and the manager unregisters the address (onDeviceDisconnected).
BlindDisconnects(a) ==
    /\ blinds[a].live > 0
    /\ blinds' = [blinds EXCEPT ![a].live = @ - 1, ![a].closing = @ + 1]
    /\ devices' = RemoveDevice(devices, a)
    /\ UNCHANGED <<bluetooth, adapter, discovering, disposeFrames, tornDown,
                   vars>>
    /\ UNCHANGED <<connectRetryCounts, maxConnectRetries, desiredDevices,
                   availableDeviceUuids, pendingAdded, commandAddress,
                   waitFrames, adapterChanges, scheduled, notified>>

\* _onBlindDisconnected resumes: blind.dispose()
AppDisposesBlind(a) ==
    /\ \/ /\ blinds[a].closing > 0
          /\ BlindDisposes(a, [blinds EXCEPT ![a].closing = @ - 1], TRUE)
       \/ /\ blinds[a].stale > 0
          /\ BlindDisposes(a, [blinds EXCEPT ![a].stale = @ - 1], FALSE)
    /\ UNCHANGED <<bluetooth, adapter, discovering, disposeFrames, tornDown>>
    /\ UNCHANGED <<maxConnectRetries, desiredDevices, availableDeviceUuids,
                   pendingAdded, adapterChanges, notified>>

BridgeNext ==
    \/ Start /\ UNCHANGED outsideBridge
    \/ \E w \in DOMAIN waitFrames : \E outcome \in Outcomes :
           WaitGetIsDiscoveringSettles(w, outcome) /\ UNCHANGED outsideBridge
    \/ \E w \in DOMAIN waitFrames : \E outcome \in Outcomes :
           StartDiscoverySettles(w, outcome) /\ UNCHANGED outsideBridge
    \/ \E w \in DOMAIN waitFrames : IntervalTick(w) /\ UNCHANGED outsideBridge
    \/ \E w \in DOMAIN waitFrames : WaitSettles(w) /\ UNCHANGED outsideBridge
    \/ \E a \in Addresses : AdapterAddsDevice(a) /\ UNCHANGED outsideBridge
    \/ \E a \in Addresses : AdapterRemovesDevice(a) /\ UNCHANGED outsideBridge
    \/ \E a \in Addresses : \E outcome \in Outcomes :
           OnDeviceAddedSettles(a, outcome) /\ UNCHANGED outsideBridge
    \/ \E item \in inFlight : \E outcome \in Outcomes :
           ReconnectCommandSettles(item, outcome) /\ UNCHANGED outsideBridge
    \/ RunImmediate /\ UNCHANGED outsidePump
    \/ \E a \in Addresses : BlindConnectFails(a) /\ UNCHANGED outsideBridge
    \/ \E a \in Addresses : BlindDisconnects(a) /\ UNCHANGED outsideBridge
    \/ \E a \in Addresses : AppDisposesBlind(a) /\ UNCHANGED outsideBridge

BridgeSpec == BridgeInit /\ [][BridgeNext]_allVars

\* --------------------------------------------------------------------- C12
\* C12: with a cap maxConnectRetries >= 0, at most that many reconnects are
\* ever scheduled for one address.
C12_AtMostCapReconnects ==
    maxConnectRetries >= 0 =>
        \A a \in Addresses : scheduled[a] <= maxConnectRetries

\* --------------------------------------------------------------------- C13
\* removeDevice() alone ran for address a in this step: the address left the
\* registry and no reconnect was made.
RemovedOnly(a) ==
    /\ a \in devices
    /\ a \notin devices'
    /\ scheduled'[a] = scheduled[a]

\* C13: removing a device from the registry resets the reconnect counter of
\* its address.
C13_RemovalResetsCounter ==
    [][\A a \in Addresses : RemovedOnly(a) => connectRetryCounts'[a] = 0]_allVars

\* --------------------------------------------------------------------- C14
\* The waitUntilDevicesFound() call of start() (the first one made).
StartReturnedBy(result) ==
    /\ Len(waitFrames) >= 1
    /\ waitFrames[1].pc = "returned"
    /\ waitFrames[1].result = result

\* Every desired address has been in the adapter's available set ever since
\* start() was called.
AllAvailableSinceStart ==
    /\ adapterChanges = 0
    /\ desiredDevices \subseteq availableDeviceUuids

\* C14: start() returns as soon as every desired address is in the adapter's
\* available set; when they all are from the outset, it does not wait for
\* the discovery timeout.
C14_ReturnsOnceAllAvailable ==
    StartReturnedBy("timeout") => ~AllAvailableSinceStart

\* --------------------------------------------------------------------- C15
\* start() has gone past its discovery check: it waits for the devices or
\* has returned.
StartPastDiscovery ==
    /\ Len(waitFrames) >= 1
    /\ waitFrames[1].pc \in {"blocked", "returned"}

\* C15: once start() has made sure discovery runs, "device-added" has been
\* delivered to the manager for every device the adapter already knew,
\* whether BlueZ was discovering before or not.
C15_KnownDevicesAnnounced ==
    (StartPastDiscovery /\ adapterChanges = 0) =>
        availableDeviceUuids \subseteq notified

\* --------------------------------------------------------------------- C16
\* The Blind objects created for address a and not disposed.
Undisposed(a) ==
    blinds[a].live + blinds[a].closing + blinds[a].stale + blinds[a].orphaned

\* C16: at every moment at most one Blind created for an address is not yet
\* disposed.
C16_OneBlindPerAddress == \A a \in Addresses : Undisposed(a) <= 1

\* ------------------------------------------------- the unlock handshake
\* Unlock attempts a Blind is configured for (options.maxUnlockRetries).
MaxUnlockRetries == 2
MaxNotifications == 2

\* maxRetries of the setPasskey and getPasskey commands.
CommandMaxRetries == 5

\* Hex strings are sequences of characters. The passkeys a Blind is configured
\* with, and the values a Passkey notification carries: Buffer.toString("hex")
\* is lower case and may be empty.
\* One of twelve characters and one of fourteen.
TwelveDigits == <<"A", "B", "0", "1", "2", "3", "4", "5", "6", "7", "8", "9">>
FourteenDigits ==
    <<"0", "0", "c", "d", "0", "1", "2", "3", "4", "5", "6", "7", "8", "9">>
ConfiguredPasskeys == {TwelveDigits, FourteenDigits}

HexDigits ==
    <<"0", "1", "2", "3", "4", "5", "6", "7",
      "8", "9", "a", "b", "c", "d", "e", "f">>

Lower(c) ==
    CASE c = "A" -> "a" [] c = "B" -> "b" [] c = "C" -> "c"
      [] c = "D" -> "d" [] c = "E" -> "e" [] c = "F" -> "f"
      [] OTHER -> c

\* String.prototype.toLowerCase()
ToLowerCase(s) == [i \in DOMAIN s |-> Lower(s[i])]

PasskeyValues ==
    {<<>>} \cup {ToLowerCase(p) \o <<"0", "0">> : p \in ConfiguredPasskeys}

IsHexDigit(c) == \E d \in DOMAIN HexDigits : HexDigits[d] = Lower(c)

HexValue(c) == (CHOOSE d \in DOMAIN HexDigits : HexDigits[d] = Lower(c)) - 1

\* Buffer.from(text, "hex"): one byte for each two hex digits, up to the
\* first pair that is not two hex digits.
RECURSIVE BufferFromHex(_)
BufferFromHex(text) ==
    IF Len(text) < 2 \/ ~IsHexDigit(text[1]) \/ ~IsHexDigit(text[2])
    THEN <<>>
    ELSE <<16 * HexValue(text[1]) + HexValue(text[2])>>
             \o BufferFromHex(SubSeq(text, 3, Len(text)))

\* String.prototype.slice(start) with start >= 0
Slice(text, start) == SubSeq(text, start + 1, Len(text))

\* The command of setPasskey() with the first two characters dropped whatever
\* the length.
PasskeyToWrite_AlwaysSliced(blindPasskey) ==
    Slice(blindPasskey, 2) \o <<"0", "1">>

\* The command of setPasskey(): the text it makes a buffer of.
PasskeyToWrite(blindPasskey) ==
    IF Len(blindPasskey) = 12
    THEN blindPasskey \o <<"0", "1">>
    ELSE Slice(blindPasskey, 2) \o <<"0", "1">>

\* writeValue(value, options): the options over the defaults.
WriteValue(value, options) ==
    [value |-> value,
     offset |-> IF "offset" \in DOMAIN options THEN options.offset ELSE 0,
     type |-> IF "type" \in DOMAIN options THEN options.type ELSE "reliable"]

\* writeValueWithResponse(value)
WriteValueWithResponse(value) ==
    WriteValue(value, [offset |-> 0, type |-> "request"])

\* The test of onPasskeyChanged with any non-empty value taken for the echo.
IsUnlockEcho_AnyValue(passkey, blindPasskey) == passkey # <<>>

\* passkey && passkey.toLowerCase() === this._blindPasskey.toLowerCase() + "00"
IsUnlockEcho(passkey, blindPasskey) ==
    /\ passkey # <<>>
    /\ ToLowerCase(passkey) = ToLowerCase(blindPasskey) \o <<"0", "0">>

\* _clearUnlockTimer()
ClearUnlockTimer(b) == [b EXCEPT !.unlockTimer = FALSE]

\* onPasskeyChanged(buffer): the Blind it leaves and the events it emits.
OnPasskeyChanged(b, passkey) ==
    IF passkey # b.passkey
    THEN IF IsUnlockEcho(passkey, b.blindPasskey)
         THEN [blind |-> ClearUnlockTimer([b EXCEPT !.passkey = passkey,
                                                    !.isUnlocked = TRUE,
                                                    !.unlockAttempts = 0]),
               emitted |-> <<"passkey-changed", "unlocked">>]
         ELSE [blind |-> [b EXCEPT !.passkey = passkey, !.isUnlocked = FALSE],
               emitted |-> <<"passkey-changed">>]
    ELSE [blind |-> b, emitted |-> <<>>]

\* _startUnlockTimerIfLocked()
StartUnlockTimerIfLocked(b) ==
    IF ~b.isUnlocked /\ ~b.unlockTimer /\ b.unlockAttempts < b.maxUnlockRetries
    THEN [b EXCEPT !.unlockTimer = TRUE]
    ELSE b

\* _disconnect(): the unlock state reset, notifications stopped, the
\* characteristics dropped.
Disconnect(b) ==
    [ClearUnlockTimer(b) EXCEPT !.isUnlocked = FALSE, !.unlockAttempts = 0,
                                !.characteristics = {}]

\* setPasskey(): the write is queued as a command, or, with no Passkey
\* characteristic, nothing is written and the caller goes on.
SetPasskey(b, f, obs) ==
    IF Bound(b, "Passkey")
    THEN /\ ExecuteCommand(CommandMaxRetries)
         /\ unlockFrames' = [f EXCEPT !.kinds = Append(@, "setPasskey")]
         /\ observed' =
                [obs EXCEPT !.unlocks =
                     Append(@, [bound |-> TRUE, write |-> commandCount + 1,
                                read |-> 0])]
    ELSE /\ unlockFrames' = [f EXCEPT !.resumable = @ + 1]
         /\ observed' =
                [obs EXCEPT !.unlocks =
                                Append(@, [bound |-> FALSE, write |-> 0,
                                           read |-> 0]),
                            !.ready = Append(@, Len(obs.unlocks) + 1)]
         /\ UNCHANGED vars

\* unlock() up to its first await, called with the Blind as b.
Unlock(b, f, obs) ==
    IF b.unlockAttempts < b.maxUnlockRetries
    THEN LET attempt == [b EXCEPT !.unlockAttempts = @ + 1,
                                  !.isUnlocked = FALSE] IN
         /\ blind' = attempt
         /\ SetPasskey(attempt, f,
                       [obs EXCEPT !.emitted = <<>>, !.attempts = @ + 1])
    ELSE /\ blind' = ClearUnlockTimer(b)
         /\ observed' = [obs EXCEPT !.emitted = <<"unlock-failed">>,
                                    !.failed = TRUE]
         /\ unlockFrames' = f
         /\ UNCHANGED vars

\* What the GATT server of a Device lists: every characteristic of a blind, or
\* all but the Passkey characteristic.
DeviceProfiles == {Range(Characteristics), Range(Characteristics) \ {"Passkey"}}

\* The characteristics the loop of onParentConnect() goes through.
Listed(gatt) == SelectSeq(Characteristics, LAMBDA name : name \in gatt)

\* One Blind, constructed with some passkey and some cap, its Device not yet
\* connected.
BlindInit ==
    /\ Constructed
    /\ recording = FALSE
    /\ ManagerConstructed
    /\ BridgeConstructed
    /\ blind \in {NewBlind(p, cap) : p \in ConfiguredPasskeys,
                                     cap \in 0..MaxUnlockRetries}
    /\ parent \in {NewDevice(gatt) : gatt \in DeviceProfiles}
    /\ unlockFrames = NoFrames
    /\ observed = NothingObserved
    /\ MetricsConstructed
    /\ CoverConstructed
    /\ ApplicationConstructed
    /\ BusConstructed

\* The Device emits "connect": onParentConnect() up to its first await. The
\* application disposes a Blind whose Device disconnected, so the Device
\* connects once under a Blind.
ParentConnects ==
    /\ ~parent.connected /\ ~parent.disposed
    /\ unlockFrames.scan = "none" /\ ~unlockFrames.closing
    /\ parent' = [parent EXCEPT !.connected = TRUE]
    /\ blind' = [blind EXCEPT !.isUnlocked = FALSE]
    /\ unlockFrames' = [unlockFrames EXCEPT !.scan = "scanning", !.at = 0]
    /\ observed' = [observed EXCEPT !.emitted = <<"connect">>,
                                    !.attempts = 0, !.echoed = FALSE,
                                    !.failed = FALSE]
    /\ UNCHANGED vars

\* The loop of onParentConnect() passes one characteristic: the handle is
\* stored, and for Angle, Passkey, Sensors and Status notifications are
\* started.
ScanBinds ==
    /\ unlockFrames.scan = "scanning"
    /\ parent.connected
    /\ unlockFrames.at < Len(Listed(parent.gatt))
    /\ blind' = [blind EXCEPT !.characteristics =
                     @ \cup {Listed(parent.gatt)[unlockFrames.at + 1]}]
    /\ unlockFrames' = [unlockFrames EXCEPT !.at = @ + 1]
    /\ observed' = [observed EXCEPT !.emitted = <<>>]
    /\ UNCHANGED <<parent, vars>>

\* The scan ends. Past the last characteristic: unlock(). On an error of
\* getGattServer(), getIsNotifying() or startNotifications() (the only way it
\* ends once the Device has disconnected): this.disconnect().
ScanSettles(outcome) ==
    /\ unlockFrames.scan = "scanning"
    /\ outcome = "returns" =>
           parent.connected /\ unlockFrames.at = Len(Listed(parent.gatt))
    /\ LET f == [unlockFrames EXCEPT !.scan = "none"] IN
       IF outcome = "returns"
       THEN Unlock(blind, f, observed)
       ELSE /\ blind' = Disconnect(blind)
            /\ unlockFrames' = f
            /\ observed' = [observed EXCEPT !.emitted = <<>>,
                                            !.bindingFailed = TRUE,
                                            !.disconnectCalled = TRUE]
            /\ UNCHANGED vars
    /\ UNCHANGED parent

\* The interval of the unlock timer fires: unlock()
TimerTick ==
    /\ blind.unlockTimer
    /\ Unlock(blind, unlockFrames, observed)
    /\ UNCHANGED parent

\* unlock() resumes after its await of setPasskey(): the getPasskey command
\* is queued.
ResumeUnlock ==
    /\ unlockFrames.resumable > 0
    /\ ExecuteCommand(CommandMaxRetries)
    /\ unlockFrames' = [unlockFrames EXCEPT !.resumable = @ - 1,
                                            !.kinds = Append(@, "getPasskey")]
    /\ observed' =
           [observed EXCEPT
               !.emitted = <<>>,
               !.unlocks[Head(observed.ready)].read = commandCount + 1,
               !.ready = Tail(@)]
    /\ UNCHANGED <<blind, parent>>

\* A command of the Blind resolves. The write needs the characteristic and
\* the connection; the read is skipped without the characteristic. The write
\* resolves setPasskey(); the read resolves the promise of unlock(), whose
\* then() is _startUnlockTimerIfLocked.
UnlockCommandSucceeds(item) ==
    /\ CommandSucceeds(item)
    /\ Bound(blind, "Passkey") => parent.connected
    /\ LET kind == unlockFrames.kinds[item.id] IN
       IF kind = "setPasskey"
       THEN /\ Bound(blind, "Passkey")
            /\ unlockFrames' = [unlockFrames EXCEPT !.resumable = @ + 1]
            /\ blind' = blind
            /\ observed' =
                   [observed EXCEPT
                       !.emitted = <<>>,
                       !.completed = @ \cup {item.id},
                       !.writes =
                           Append(@, WriteValueWithResponse(BufferFromHex(
                                         PasskeyToWrite(blind.blindPasskey)))),
                       !.ready =
                           Append(@, CHOOSE k \in DOMAIN observed.unlocks :
                                         observed.unlocks[k].write = item.id)]
       ELSE /\ blind' = StartUnlockTimerIfLocked(blind)
            /\ unlockFrames' = unlockFrames
            /\ observed' = [observed EXCEPT !.emitted = <<>>,
                                            !.completed = @ \cup {item.id}]
    /\ UNCHANGED parent

\* What the command of a Blind rejects with: the write finds no
\* characteristic to write to, or the bus reports the lost connection, or the
\* blind is busy.
NoCharacteristic == <<"Cannot", "read", "properties", "of", "undefined">>

CommandError(b, p) ==
    IF ~Bound(b, "Passkey") THEN NoCharacteristic
    ELSE IF ~p.connected THEN <<"Operation", "failed", "Not", "connected">>
    ELSE DeviceBusy

\* A command of the Blind rejects: the pump retries or drops it, and the
\* promise it would have resolved stays pending. The read is skipped, and
\* cannot reject, without the characteristic.
UnlockCommandFails(item) ==
    /\ unlockFrames.kinds[item.id] = "getPasskey" => Bound(blind, "Passkey")
    /\ CommandFails(item, CommandError(blind, parent))
    /\ observed' =
           [observed EXCEPT
               !.emitted = <<>>,
               !.writeDropped =
                   @ \/ /\ item.id = 1
                        /\ unlockFrames.kinds[item.id] = "setPasskey"
                        /\ ~ShouldRetry(item, CommandError(blind, parent))]
    /\ UNCHANGED <<blind, parent, unlockFrames>>

\* The blind sends a Passkey notification.
DeviceNotifies(value) ==
    /\ parent.connected /\ Bound(blind, "Passkey")
    /\ unlockFrames.signal = Undefined
    /\ unlockFrames' = [unlockFrames EXCEPT !.signal = value]
    /\ observed' = [observed EXCEPT !.emitted = <<>>]
    /\ UNCHANGED <<blind, parent, vars>>

\* The notification is delivered: onPasskeyChanged(buffer)
PasskeyChanged ==
    /\ unlockFrames.signal # Undefined
    /\ LET value == unlockFrames.signal
           after == OnPasskeyChanged(blind, value) IN
       /\ blind' = after.blind
       /\ observed' =
              [observed EXCEPT
                  !.last = value,
                  !.emitted = after.emitted,
                  !.echoed = @ \/ value = ToLowerCase(blind.blindPasskey)
                                              \o <<"0", "0">>]
    /\ unlockFrames' = [unlockFrames EXCEPT !.signal = Undefined]
    /\ UNCHANGED <<parent, vars>>

\* The Device emits "disconnect": onParentDisconnect() emits "disconnect", on
\* which the application starts publishing "offline".
ParentDisconnects ==
    /\ parent.connected
    /\ parent' = [parent EXCEPT !.connected = FALSE]
    /\ unlockFrames' = [unlockFrames EXCEPT !.closing = TRUE]
    /\ observed' = [observed EXCEPT !.emitted = <<"disconnect">>]
    /\ UNCHANGED <<blind, vars>>

\* _onBlindDisconnected resumes: blind.dispose() stops the notifications,
\* drops the characteristics and disposes the Device.
DisposeBlind ==
    /\ unlockFrames.closing
    /\ blind' = [blind EXCEPT !.characteristics = {}]
    /\ parent' = [parent EXCEPT !.connected = FALSE, !.disposed = TRUE]
    /\ unlockFrames' = [unlockFrames EXCEPT !.closing = FALSE]
    /\ observed' = [observed EXCEPT !.emitted = <<"dispose">>]
    /\ UNCHANGED vars

BlindNext ==
    \/ ParentConnects /\ UNCHANGED outsideUnlock
    \/ ScanBinds /\ UNCHANGED outsideUnlock
    \/ \E outcome \in Outcomes : ScanSettles(outcome) /\ UNCHANGED outsideUnlock
    \/ TimerTick /\ UNCHANGED outsideUnlock
    \/ ResumeUnlock /\ UNCHANGED outsideUnlock
    \/ \E item \in inFlight :
           UnlockCommandSucceeds(item) /\ UNCHANGED outsideUnlock
    \/ \E item \in inFlight :
           UnlockCommandFails(item) /\ UNCHANGED outsideUnlock
    \/ RunImmediate /\ observed' = [observed EXCEPT !.emitted = <<>>]
           /\ UNCHANGED <<blind, parent, unlockFrames, outsideUnlock>>
    \/ \E value \in PasskeyValues :
           DeviceNotifies(value) /\ UNCHANGED outsideUnlock
    \/ PasskeyChanged /\ UNCHANGED outsideUnlock
    \/ ParentDisconnects /\ UNCHANGED outsideUnlock
    \/ DisposeBlind /\ UNCHANGED outsideUnlock

BlindSpec == BlindInit /\ [][BlindNext]_allVars

\* --------------------------------------------------------------------- C17
\* Whether a notification value is the configured passkey followed by "00",
\* letter case apart.
CarriesConfiguredPasskey(value) ==
    /\ value # Undefined
    /\ ToLowerCase(value) = ToLowerCase(blind.blindPasskey) \o <<"0", "0">>

\* A step that delivers a Passkey notification carrying the echo.
EchoDelivered ==
    /\ unlockFrames.signal # Undefined
    /\ unlockFrames'.signal = Undefined
    /\ CarriesConfiguredPasskey(unlockFrames.signal)

\* C17: whenever isUnlocked is true, the most recent Passkey notification
\* delivered to the Blind carried the configured passkey followed by "00"
\* (letter case apart); and a step sets isUnlocked to true only by delivering
\* such a notification.
C17_UnlockedOnlyByEcho ==
    /\ [](blind.isUnlocked => CarriesConfiguredPasskey(observed.last))
    /\ [][~blind.isUnlocked /\ blind'.isUnlocked => EchoDelivered]_allVars

\* A Blind configured with an upper-case passkey made an attempt and was
\* unlocked by the lower-case echo.
C17_Witness ==
    /\ blind.isUnlocked
    /\ blind.blindPasskey = TwelveDigits
    /\ observed.last = ToLowerCase(TwelveDigits) \o <<"0", "0">>
    /\ observed.attempts > 0
    /\ observed.emitted = <<"passkey-changed", "unlocked">>

\* --------------------------------------------------------------------- C18
\* The Blind is unlocking: connected, an attempt made, neither unlocked nor
\* failed.
Unlocking ==
    /\ parent.connected
    /\ ~blind.isUnlocked
    /\ blind.unlockAttempts > 0
    /\ ~observed.failed

\* How many times a step emitted an event.
Emissions(event, emitted) ==
    Cardinality({i \in DOMAIN emitted : emitted[i] = event})

\* C18: a Passkey notification carrying the configured passkey followed by
\* "00" (letter case apart), delivered while the Blind is unlocking, leaves the
\* Blind unlocked with its attempt counter at 0 and its unlock timer cancelled,
\* and emits "unlocked" exactly once.
C18_EchoUnlocks ==
    [][(Unlocking /\ EchoDelivered) =>
           /\ blind'.isUnlocked
           /\ blind'.unlockAttempts = 0
           /\ ~blind'.unlockTimer
           /\ Emissions("unlocked", observed'.emitted) = 1]_allVars

\* --------------------------------------------------------------------- C19
\* Nothing of the handshake is left to run: the scan ended, no unlock() call
\* can resume, no command is queued or running, no notification is in flight
\* and no timer is set.
HandshakeAtRest ==
    /\ unlockFrames.scan = "none"
    /\ unlockFrames.resumable = 0
    /\ unlockFrames.signal = Undefined
    /\ bluetoothCommandQueue = <<>> /\ inFlight = {} /\ pendingImmediates = 0
    /\ ~blind.unlockTimer

\* The Blind is connected with its Passkey characteristic bound, and no
\* matching echo was delivered on this connection.
ConnectedUnanswered ==
    /\ parent.connected
    /\ Bound(blind, "Passkey")
    /\ ~observed.echoed

\* C19: while the Blind stays connected and no matching echo is delivered, it
\* starts at most maxUnlockRetries unlock attempts, and once it has started
\* one and nothing of the handshake is left to run it has emitted
\* "unlock-failed" (with its timer cancelled).
C19_FailsWhenAttemptsRunOut ==
    ConnectedUnanswered =>
        /\ observed.attempts <= blind.maxUnlockRetries
        /\ (observed.attempts > 0 /\ HandshakeAtRest) => observed.failed

\* --------------------------------------------------------------------- C20
\* The Device of the Blind has disconnected.
HasDisconnected ==
    /\ ~parent.connected
    /\ unlockFrames.closing \/ parent.disposed

\* C20: the step in which the Device disconnects leaves the Blind locked with
\* no unlock timer, whatever its unlock state was, and no unlock attempt is
\* started after the Device has disconnected.
C20_DisconnectLocks ==
    /\ [][(parent.connected /\ ~parent'.connected) =>
              (~blind'.isUnlocked /\ ~blind'.unlockTimer)]_allVars
    /\ [][HasDisconnected => observed'.attempts = observed.attempts]_allVars

\* --------------------------------------------------------------------- C21
\* A step of the binding failed for good: the scan threw (getGattServer or a
\* notification start), or the passkey write of the first unlock attempt was
\* rejected and dropped.
BindingFailed == observed.bindingFailed \/ observed.writeDropped

\* C21: once a step of the binding on connect has failed (getting the GATT
\* server, starting a notification, or the first unlock attempt) and nothing
\* is left to run, neither of the handshake nor of the application's handling
\* of a disconnect, a Blind whose Device is still connected has called
\* disconnect(), and none of its seven characteristic handles is bound.
C21_FailedBindingDisconnects ==
    (BindingFailed /\ HandshakeAtRest /\ ~unlockFrames.closing) =>
        /\ parent.connected => observed.disconnectCalled
        /\ blind.characteristics = {}

\* ------------------------------------------------- decoding the metrics
\* A JavaScript number of up to 32 bits: its sign and the two 16-bit halves of
\* its magnitude. Zero is not negative.
Number32(neg, hi, lo) == [neg |-> neg, hi |-> hi, lo |-> lo]

\* The flag constants of Constants.ts.
IS_REVERSED == Number32(FALSE, 0, 1)
IS_BONDING == Number32(FALSE, 0, 2)
IS_CALIBRATED == Number32(FALSE, 1, 0)
HAS_SOLAR == Number32(FALSE, 2, 0)
IS_CHARGING_SOLAR == Number32(FALSE, 4, 0)
IS_CHARGING_USB == Number32(FALSE, 8, 0)
IS_TIME_VALID == Number32(FALSE, 16, 0)
UNDER_VOLTAGE_LOCKOUT == Number32(FALSE, 32, 0)
IS_OVER_TEMP == Number32(FALSE, 64, 0)
TEMP_OVERRIDE == Number32(FALSE, 128, 0)
IS_PASSKEY_VALID == Number32(FALSE, 32768, 0)

\* Buffer.readUInt32LE(): an unsigned number.
ReadUInt32LE(buffer) ==
    Number32(FALSE, buffer[4] * 256 + buffer[3], buffer[2] * 256 + buffer[1])

\* The bits two 16-bit numbers share.
RECURSIVE And16(_, _)
And16(a, b) ==
    IF a = 0 \/ b = 0 THEN 0
    ELSE (a % 2) * (b % 2) + 2 * And16(a \div 2, b \div 2)

\* The number a 32-bit pattern stands for when read as a signed integer.
Signed32(hi, lo) ==
    IF hi < 32768 THEN Number32(FALSE, hi, lo)
    ELSE Number32(TRUE,
                  65535 - hi + (IF lo = 0 THEN 1 ELSE 0),
                  (65536 - lo) % 65536)

\* x & y for x, y in 0 .. 2^32 - 1: both are taken as 32-bit patterns and the
\* result is a signed 32-bit integer.
BitAnd(x, y) == Signed32(And16(x.hi, y.hi), And16(x.lo, y.lo))

\* a === b for numbers
StrictEquals(a, b) == a = b

Flag(b) == IF b THEN "true" ELSE "false"

\* (status & mask) === mask
HasFlag(status, mask) == Flag(StrictEquals(BitAnd(status, mask), mask))

\* parseBlindStatus(buffer)
ParseBlindStatus(buffer) ==
    LET status == ReadUInt32LE(buffer) IN
    [hasSolar |-> HasFlag(status, HAS_SOLAR),
     isBonding |-> HasFlag(status, IS_BONDING),
     isCalibrated |-> HasFlag(status, IS_CALIBRATED),
     isSolarCharging |-> HasFlag(status, IS_CHARGING_SOLAR),
     isUsbCharging |-> HasFlag(status, IS_CHARGING_USB),
     isOverTemperature |-> HasFlag(status, IS_OVER_TEMP),
     isPaired |-> "false",
     isPasskeyInvalid |-> "false",
     isPasskeyValid |-> HasFlag(status, IS_PASSKEY_VALID),
     isReversed |-> HasFlag(status, IS_REVERSED),
     isTimeValid |-> HasFlag(status, IS_TIME_VALID),
     tempOverride |-> HasFlag(status, TEMP_OVERRIDE),
     isUnderVoltageLockout |-> HasFlag(status, UNDER_VOLTAGE_LOCKOUT)]

\* Status words, as the four bytes of a notification: every combination of
\* the defined flag bits, with and without some undefined bits (bit 2, bit 24).
StatusWords ==
    {<<b1, 0, b3, b4>> : b1 \in 0..7, b3 \in 0..255, b4 \in {0, 1, 128, 129}}

\* parseBlindStatus(buffer) is called, once.
ParseStatus(buffer) ==
    /\ delivery.kind = "none"
    /\ delivery' = [delivery EXCEPT !.kind = "parseBlindStatus",
                                    !.buffer = buffer,
                                    !.decoded = ParseBlindStatus(buffer),
                                    !.events = <<>>]
    /\ UNCHANGED metrics

\* ------------------------------------------------- handling the metrics
\* buffer.toString("hex"): two digits for each byte.
RECURSIVE ToHex(_)
ToHex(buffer) ==
    IF buffer = <<>> THEN <<>>
    ELSE <<HexDigits[(Head(buffer) \div 16) + 1],
           HexDigits[(Head(buffer) % 16) + 1]>> \o ToHex(Tail(buffer))

ReadUInt8(buffer, offset) == buffer[offset + 1]

ReadUInt16LE(buffer, offset) == buffer[offset + 2] * 256 + buffer[offset + 1]

\* A read past the end of the buffer throws a RangeError.
SensorsReadable(buffer) == Len(buffer) >= 14

\* parseBlindSensors(sensorState), in tenths: the last three are divided by 10.
ParseBlindSensors(sensorState) ==
    [batteryPercentage |-> Whole(ReadUInt8(sensorState, 0)),
     batteryVoltage |-> Whole(ReadUInt16LE(sensorState, 2)),
     batteryCharge |-> Whole(ReadUInt16LE(sensorState, 4)),
     solarPanelVoltage |-> Whole(ReadUInt16LE(sensorState, 6)),
     interiorTemperature |-> ReadUInt16LE(sensorState, 8),
     batteryTemperature |-> ReadUInt16LE(sensorState, 10),
     illuminance |-> ReadUInt16LE(sensorState, 12)]

Metric(stored, decoded, event) ==
    [stored |-> stored, decoded |-> decoded, event |-> event]

\* The comparisons of onSensorsChanged, in its order: the stored field, the
\* decoded value it is compared with, the event of its change.
SensorFields ==
    <<Metric("batteryLevel", "batteryPercentage", "battery-level-changed"),
      Metric("batteryTemperature", "batteryTemperature",
             "battery-temperature-changed"),
      Metric("batteryVoltage", "batteryVoltage", "battery-voltage-changed"),
      Metric("batteryCharge", "batteryCharge", "battery-charge-changed"),
      Metric("interiorTemperature", "interiorTemperature",
             "interior-temperature-changed"),
      Metric("illuminance", "illuminance", "illuminance-changed"),
      Metric("solarPanelVoltage", "solarPanelVoltage",
             "solar-panel-voltage-changed")>>

\* The comparisons of onStatusChanged, in its order. isPasskeyInvalid and
\* isPasskeyValid are not compared.
StatusFields ==
    <<Metric("hasSolar", "hasSolar", "has-solar-changed"),
      Metric("isBonding", "isBonding", "is-bonding-changed"),
      Metric("isCalibrated", "isCalibrated", "is-calibrated-changed"),
      Metric("isSolarCharging", "isSolarCharging", "is-solar-charging-changed"),
      Metric("isUsbCharging", "isUsbCharging", "is-usb-charging-changed"),
      Metric("isOverTemperature", "isOverTemperature",
             "is-over-temperature-changed"),
      Metric("isBlindPaired", "isPaired", "is-blind-paired-changed"),
      Metric("isReversed", "isReversed", "is-reversed-changed"),
      Metric("isTimeValid", "isTimeValid", "is-time-valid-changed"),
      Metric("isUnderVoltageLockout", "isUnderVoltageLockout",
             "is-under-voltage-lockout-changed"),
      Metric("tempOverride", "tempOverride", "temperature-override-changed")>>

\* eventsToEmit.push(() => this.emit(event, this, this.field)): the closure,
\* and the stored fields at the moment it is pushed.
Closure(event, field, m) == [event |-> event, field |-> field, atPush |-> m]

\* The if-statements of a handler over its fields: each field that differs
\* from the decoded value is assigned and its closure is pushed.
RECURSIVE Compare(_, _, _, _)
Compare(fields, m, currentState, eventsToEmit) ==
    IF fields = <<>> THEN [metrics |-> m, eventsToEmit |-> eventsToEmit]
    ELSE LET f == Head(fields) IN
         IF m[f.stored] # currentState[f.decoded]
         THEN LET assigned == [m EXCEPT ![f.stored] = currentState[f.decoded]]
              IN Compare(Tail(fields), assigned, currentState,
                         Append(eventsToEmit,
                                Closure(f.event, f.stored, assigned)))
         ELSE Compare(Tail(fields), m, currentState, eventsToEmit)

ListenerSees_AtPush(atPush, atEnd) == atPush

\* The stored fields a listener finds when its event is emitted: the closures
\* are called by eventsToEmit.forEach, after the last comparison.
ListenerSees(atPush, atEnd) == atEnd

\* eventsToEmit.forEach((event) => event()): each emission, with the value it
\* carries and the stored fields its listeners find.
Fire(eventsToEmit, atEnd) ==
    [i \in 1..Len(eventsToEmit) |->
        LET seen == ListenerSees(eventsToEmit[i].atPush, atEnd) IN
        [event |-> eventsToEmit[i].event,
         value |-> seen[eventsToEmit[i].field],
         seen |-> seen]]

RawDiffers_Always(stored, raw) == TRUE

\* this.rawSensorState !== rawSensorState
RawDiffers(stored, raw) == stored # raw

NothingHandled(m) == [metrics |-> m, events |-> <<>>]

\* onSensorsChanged(buffer)
OnSensorsChanged(m, buffer) ==
    IF ~SensorsReadable(buffer) THEN NothingHandled(m)
    ELSE
    LET currentState == ParseBlindSensors(buffer)
        rawSensorState == ToHex(buffer)
    IN  IF RawDiffers(m.rawSensorState, rawSensorState)
        THEN LET raw == [m EXCEPT !.rawSensorState = rawSensorState]
                 done == Compare(SensorFields, raw, currentState,
                                 <<Closure("sensors-changed",
                                           "rawSensorState", raw)>>)
             IN [metrics |-> done.metrics,
                 events |-> Fire(done.eventsToEmit, done.metrics)]
        ELSE NothingHandled(m)

\* onStatusChanged(buffer)
OnStatusChanged(m, buffer) ==
    LET rawStatusState == ToHex(buffer)
        currentState == ParseBlindStatus(buffer)
    IN  IF rawStatusState # m.rawStatusState
        THEN LET raw == [m EXCEPT !.rawStatusState = rawStatusState]
                 done == Compare(StatusFields, raw, currentState,
                                 <<Closure("status-changed",
                                           "rawStatusState", raw)>>)
             IN [metrics |-> done.metrics,
                 events |-> Fire(done.eventsToEmit, done.metrics)]
        ELSE NothingHandled(m)

\* Sensors notifications: one with every value set, the same with only its
\* unread second byte changed, one with two values changed, one with every
\* value changed, and one too short to be read.
SensorBuffers ==
    {<<50, 0, 16, 14, 100, 0, 0, 0, 215, 0, 200, 0, 10, 0>>,
     <<50, 1, 16, 14, 100, 0, 0, 0, 215, 0, 200, 0, 10, 0>>,
     <<49, 0, 16, 14, 100, 0, 0, 0, 215, 0, 200, 0, 11, 0>>,
     <<48, 0, 15, 14, 99, 0, 1, 0, 214, 0, 199, 0, 12, 1>>,
     <<50, 0>>}

\* Status notifications: no flag, the flags of three words, and a word with
\* undefined bits only.
StatusBuffers ==
    {<<0, 0, 0, 0>>, <<1, 0, 2, 128>>, <<1, 0, 2, 0>>, <<3, 0, 255, 0>>,
     <<4, 0, 0, 1>>}

\* The handler a Blind adds to a characteristic as its "value-changed"
\* listener in onParentConnect.
Listener(name) ==
    CASE name = "Angle" -> "onAngleChanged"
      [] name = "Passkey" -> "onPasskeyChanged"
      [] OTHER -> "none"

\* What the metric handlers do with a buffer.
Handle(listener, m, buffer) ==
    CASE listener = "onSensorsChanged" -> OnSensorsChanged(m, buffer)
      [] listener = "onStatusChanged" -> OnStatusChanged(m, buffer)
      [] OTHER -> NothingHandled(m)

Decode(listener, buffer) ==
    CASE listener = "onSensorsChanged" /\ SensorsReadable(buffer) ->
             ParseBlindSensors(buffer)
      [] listener = "onStatusChanged" -> ParseBlindStatus(buffer)
      [] OTHER -> <<>>

\* A call is recorded: what was called, with which bytes, the stored fields
\* it found, and the events it emitted.
Delivered(kind, name, buffer, listener, events) ==
    [delivery EXCEPT !.kind = kind,
                     !.name = name,
                     !.buffer = buffer,
                     !.before = metrics,
                     !.decoded = Decode(listener, buffer),
                     !.events = events,
                     !.handled = @ + 1]

CanDeliver ==
    /\ delivery.kind # "parseBlindStatus"
    /\ delivery.handled < MaxNotifications

\* The handler of a characteristic is called with a buffer.
Handled(name, listener, buffer) ==
    /\ CanDeliver
    /\ LET r == Handle(listener, metrics, buffer) IN
       /\ metrics' = r.metrics
       /\ delivery' = [Delivered(listener, name, buffer, listener, r.events)
                           EXCEPT !.previous = delivery.last[name],
                                  !.last[name] = buffer]

SensorsChanged(buffer) == Handled("Sensors", "onSensorsChanged", buffer)

StatusChanged(buffer) == Handled("Status", "onStatusChanged", buffer)

\* GattCharacteristic.onPropertiesChanged: a notification of a characteristic
\* whose notifications were started is emitted as "value-changed" to the
\* listeners the Blind added.
CharacteristicNotifies(name, buffer) ==
    /\ CanDeliver
    /\ LET r == Handle(Listener(name), metrics, buffer) IN
       /\ metrics' = r.metrics
       /\ delivery' = [Delivered("value-changed", name, buffer,
                                 Listener(name), r.events)
                           EXCEPT !.previous = delivery.notified[name],
                                  !.notified[name] = buffer]

MetricsNext ==
    \/ \E buffer \in StatusWords : ParseStatus(buffer) /\ UNCHANGED outsideMetrics
    \/ \E buffer \in SensorBuffers :
           SensorsChanged(buffer) /\ UNCHANGED outsideMetrics
    \/ \E buffer \in StatusBuffers :
           StatusChanged(buffer) /\ UNCHANGED outsideMetrics
    \/ \E buffer \in SensorBuffers :
           CharacteristicNotifies("Sensors", buffer) /\ UNCHANGED outsideMetrics
    \/ \E buffer \in StatusBuffers :
           CharacteristicNotifies("Status", buffer) /\ UNCHANGED outsideMetrics

MetricsSpec == InitUnrecorded /\ [][MetricsNext]_allVars

\* --------------------------------------------------------------------- C22
\* Bit k of a little-endian word given as bytes.
BitSet(buffer, k) == (buffer[(k \div 8) + 1] \div (2 ^ (k % 8))) % 2 = 1

\* The bit each decoded flag stands for.
FlagBits ==
    [isReversed |-> 0, isBonding |-> 1, isCalibrated |-> 16, hasSolar |-> 17,
     isSolarCharging |-> 18, isUsbCharging |-> 19, isTimeValid |-> 20,
     isUnderVoltageLockout |-> 21, isOverTemperature |-> 22,
     tempOverride |-> 23, isPasskeyValid |-> 31]

\* C22: for every status word, each decoded flag is true exactly when its
\* mask bit is set in the word, bit 31 for isPasskeyValid included.
C22_FlagsMatchBits ==
    delivery.kind = "parseBlindStatus" =>
        \A flag \in DOMAIN FlagBits :
            delivery.decoded[flag] = Flag(BitSet(delivery.buffer, FlagBits[flag]))

\* --------------------------------------------------------------------- C23
\* The raw change event of a characteristic.
RawEvent == [Sensors |-> "sensors-changed", Status |-> "status-changed"]

MetricsOf == [Sensors |-> SensorFields, Status |-> StatusFields]

ParserOf ==
    [Sensors |-> "onSensorsChanged", Status |-> "onStatusChanged"]

Emitted(event) == \E i \in DOMAIN delivery.events : delivery.events[i].event = event

\* The notification differs from the one before it and can be decoded.
FreshNotification ==
    /\ delivery.kind = "value-changed"
    /\ delivery.buffer # delivery.previous
    /\ Decode(ParserOf[delivery.name], delivery.buffer) # <<>>

\* C23: a Sensors or Status notification whose bytes differ from those of the
\* one before makes the Blind emit the raw change event and a change event
\* for each metric whose decoded value differs from the stored one, and
\* leaves the decoded values stored.
C23_NotificationEmitsChanges ==
    FreshNotification =>
        LET decoded == Decode(ParserOf[delivery.name], delivery.buffer)
            fields == MetricsOf[delivery.name]
        IN  /\ Emitted(RawEvent[delivery.name])
            /\ \A i \in DOMAIN fields :
                   /\ delivery.before[fields[i].stored] # decoded[fields[i].decoded]
                          => Emitted(fields[i].event)
                   /\ metrics[fields[i].stored] = decoded[fields[i].decoded]

\* --------------------------------------------------------------------- C24
\* A handler has emitted events for a notification it decoded.
HandlerEmitted ==
    /\ delivery.kind \in {"onSensorsChanged", "onStatusChanged"}
    /\ delivery.events # <<>>

SensorsRepeated ==
    /\ delivery.kind = "onSensorsChanged"
    /\ delivery.previous = delivery.buffer

\* C25: handling a Sensors notification with the bytes of the one handled
\* before emits no event and changes no stored field, so that handling it
\* twice leaves what handling it once left.
C25_RepeatedSensorsIsNoOp ==
    SensorsRepeated =>
        /\ delivery.events = <<>>
        /\ metrics = delivery.before

\* A readable Sensors notification was handled twice in a row.
C25_Witness ==
    /\ SensorsRepeated
    /\ SensorsReadable(delivery.buffer)
    /\ metrics.rawSensorState = ToHex(delivery.buffer)

\* ------------------------------------------- the Application's commands
MaxMessages == 2

MIN_ANGLE == 0
MAX_ANGLE == 200

IsValidAngle_Exclusive(value) == value > MIN_ANGLE /\ value < MAX_ANGLE

\* isValidAngle(value)
IsValidAngle(value) == value >= MIN_ANGLE /\ value <= MAX_ANGLE

\* Buffer.from([value]): one byte, the value modulo 256.
BufferFrom(value) == <<value % 256>>

\* What setAngle(value) on a Blind comes to: an Error, one queued command, or
\* a warning.
SetAngleOutcome(b, value) ==
    IF IsValidAngle(value) = FALSE THEN "Invalid angle value"
    ELSE IF b.angleCharacteristic THEN "queued"
    ELSE "Angle characteristic not found."

\* setAngle(value) on the Blind b, up to its await.
SetAngle(b, value) ==
    IF SetAngleOutcome(b, value) = "queued"
    THEN /\ ExecuteCommand(CommandMaxRetries)
         /\ writes' = Append(writes, [name |-> "setAngle",
                                      method |-> "writeValueWithResponse",
                                      value |-> BufferFrom(value)])
    ELSE UNCHANGED <<vars, writes>>

\* sanitizeMacAddress(macAddress): every ":" becomes "_".
SanitizeMacAddress(macAddress) ==
    [i \in DOMAIN macAddress |->
        IF macAddress[i] = ":" THEN "_" ELSE macAddress[i]]

\* params.mac.replace(/_/g, ":")
ToMacAddress(mac) == [i \in DOMAIN mac |-> IF mac[i] = "_" THEN ":" ELSE mac[i]]

\* "bt2mqtt/cover/"
TopicPrefix ==
    <<"b", "t", "2", "m", "q", "t", "t", "/", "c", "o", "v", "e", "r", "/">>

SetSuffix == <<"s", "e", "t">>
TiltSetSuffix == <<"t", "i", "l", "t", "/">> \o SetSuffix

\* getBlindCommandTopic and getBlindTiltCommandTopic; the router matches them
\* against the patterns of getBlindListenTopics().
CommandTopic(mac) == TopicPrefix \o mac \o <<"/">> \o SetSuffix
TiltCommandTopic(mac) == TopicPrefix \o mac \o <<"/">> \o TiltSetSuffix

\* topic.endsWith(suffix)
EndsWith(topic, suffix) ==
    /\ Len(topic) >= Len(suffix)
    /\ SubSeq(topic, Len(topic) - Len(suffix) + 1, Len(topic)) = suffix

Digits == <<"0", "1", "2", "3", "4", "5", "6", "7", "8", "9">>

IsDigit(c) == \E d \in DOMAIN Digits : Digits[d] = c

DigitValue(c) == (CHOOSE d \in DOMAIN Digits : Digits[d] = c) - 1

RECURSIVE Natural(_)
Natural(text) ==
    IF text = <<>> THEN 0
    ELSE 10 * Natural(SubSeq(text, 1, Len(text) - 1))
         + DigitValue(text[Len(text)])

IsNatural(text) == text # <<>> /\ \A i \in DOMAIN text : IsDigit(text[i])

\* pkt.json() of a text that is a JSON integer; any other text here is not
\* JSON and makes it throw.
IsJsonNumber(text) ==
    \/ IsNatural(text)
    \/ text # <<>> /\ Head(text) = "-" /\ IsNatural(Tail(text))

Json(text) ==
    IF Head(text) = "-" THEN 0 - Natural(Tail(text)) ELSE Natural(text)

Text(word) ==
    CASE word = "OPEN" -> <<"O", "P", "E", "N">>
      [] word = "CLOSE" -> <<"C", "L", "O", "S", "E">>
      [] word = "open" -> <<"o", "p", "e", "n">>

Route_AnyCase(command) ==
    CASE command \in {Text("OPEN"), Text("open")} -> <<MAX_ANGLE \div 2>>
      [] command = Text("CLOSE") -> <<0>>
      [] OTHER -> <<>>

\* The argument of setAngle for a cover command: Math.floor(MAX_ANGLE / 2) for
\* "OPEN", 0 for "CLOSE"; no call for anything else.
Route(command) ==
    CASE command = Text("OPEN") -> <<MAX_ANGLE \div 2>>
      [] command = Text("CLOSE") -> <<0>>
      [] OTHER -> <<>>

\* What _onBlindMqttMessageReceived calls setAngle with, if it does.
AngleOf(topic, text) ==
    IF EndsWith(topic, TiltSetSuffix)
    THEN IF IsJsonNumber(text) THEN <<Json(text)>> ELSE <<>>
    ELSE IF EndsWith(topic, SetSuffix) THEN Route(text)
    ELSE <<>>

\* How the handler ends for a message that found a Blind.
HandlerOutcome(b, topic, text) ==
    IF AngleOf(topic, text) # <<>>
    THEN SetAngleOutcome(b, AngleOf(topic, text)[1])
    ELSE IF EndsWith(topic, TiltSetSuffix) THEN "SyntaxError"
    ELSE "Invalid angle command received"

\* The mac parameters of the topics received: the two configured addresses
\* and one in lower case.
MacParameters ==
    {SanitizeMacAddress(mac) : mac \in MacAddresses}
        \cup {<<"a", "a", "_", "0", "1">>}

\* Payloads: the two commands, one in lower case, and numbers inside, at the
\* ends of and outside the range of angles.
Payloads ==
    {Text("OPEN"), Text("CLOSE"), Text("open"), <<"0">>, <<"1", "0", "0">>,
     <<"2", "0", "0">>, <<"2", "0", "1">>, <<"-", "1">>}

\* A Blind in the Application's hands.
BlindStates ==
    [angleCharacteristic : BOOLEAN, isUnlocked : BOOLEAN]

\* One Blind is registered, for the first address.
CoverInit ==
    /\ Constructed
    /\ recording = FALSE
    /\ ManagerConstructed
    /\ BridgeConstructed
    /\ BlindConstructed
    /\ MetricsConstructed
    /\ ApplicationConstructed
    /\ BusConstructed
    /\ registered \in {[mac \in {<<"A", "A", ":", "0", "1">>} |-> b] :
                           b \in BlindStates}
    /\ inbound = NoMessage
    /\ writes = <<>>

\* _onBlindMqttMessageReceived(pkt, params), up to its await.
MessageReceived(topic, mac, text) ==
    /\ inbound.count < MaxMessages
    /\ LET address == ToMacAddress(mac)
           received == [NoMessage EXCEPT !.count = inbound.count + 1,
                                         !.topic = topic,
                                         !.text = text,
                                         !.mac = address]
       IN  IF address \notin DOMAIN registered
           THEN /\ inbound' = [received EXCEPT !.outcome = "no blind"]
                /\ UNCHANGED <<vars, writes>>
           ELSE LET found == registered[address]
                    angle == AngleOf(topic, text)
                IN  /\ inbound' =
                           [received EXCEPT
                               !.angle = angle,
                               !.outcome = HandlerOutcome(found, topic, text)]
                    /\ IF angle # <<>>
                       THEN SetAngle(found, angle[1])
                       ELSE UNCHANGED <<vars, writes>>
    /\ UNCHANGED registered

CoverNext ==
    \/ \E mac \in MacParameters, text \in Payloads :
           MessageReceived(CommandTopic(mac), mac, text)
               /\ UNCHANGED outsideCover
    \/ \E mac \in MacParameters, text \in Payloads :
           MessageReceived(TiltCommandTopic(mac), mac, text)
               /\ UNCHANGED outsideCover
    \/ RunImmediate /\ UNCHANGED <<coverVars, outsideCover>>
    \/ Settle /\ UNCHANGED <<coverVars, outsideCover>>

CoverSpec == CoverInit /\ [][CoverNext]_allVars

\* --------------------------------------------------------------------- C26
\* The commands that wait in the queue or run.
Pending ==
    {bluetoothCommandQueue[i].id : i \in DOMAIN bluetoothCommandQueue}
        \cup {item.id : item \in inFlight}

\* This step is a message that called setAngle.
SetAngleCalled ==
    /\ inbound'.count = inbound.count + 1
    /\ inbound'.angle # <<>>

PumpUntouched ==
    UNCHANGED <<bluetoothCommandQueue, inFlight, isExecuting, commandCount,
                writes>>

\* C26: setAngle(v) with v below 0 or above 200 fails with the invalid-angle
\* error and leaves the queue as it was; with v in 0..200 and the Angle
\* characteristic bound it queues exactly one command, a write with response
\* of the one byte v, unlocked or not; with the characteristic unbound it
\* queues nothing.
C26_SetAngle ==
    [][SetAngleCalled =>
          LET v == inbound'.angle[1]
              b == registered[inbound'.mac]
          IN  IF v < 0 \/ v > 200
              THEN /\ inbound'.outcome = "Invalid angle value"
                   /\ PumpUntouched
              ELSE IF b.angleCharacteristic
              THEN /\ inbound'.outcome = "queued"
                   /\ commandCount' = commandCount + 1
                   /\ Pending' = Pending \cup {commandCount'}
                   /\ commandCount' \notin Pending
                   /\ writes' = Append(writes,
                                       [name |-> "setAngle",
                                        method |-> "writeValueWithResponse",
                                        value |-> <<v>>])
              ELSE PumpUntouched]_allVars

\* setAngle(200) queued its write on a Blind that is not unlocked, after an
\* angle out of range was refused.
C26_Witness ==
    /\ inbound.count = 2
    /\ inbound.angle = <<200>>
    /\ inbound.outcome = "queued"
    /\ ~registered[inbound.mac].isUnlocked
    /\ Len(writes) = 1
    /\ writes[1].value = <<200>>

\* --------------------------------------------------------------------- C27
\* The number each numeric payload spells.
Spelled ==
    [text \in {<<"0">>, <<"1", "0", "0">>, <<"2", "0", "0">>,
               <<"2", "0", "1">>, <<"-", "1">>} |->
        CASE text = <<"0">> -> 0
          [] text = <<"1", "0", "0">> -> 100
          [] text = <<"2", "0", "0">> -> 200
          [] text = <<"2", "0", "1">> -> 201
          [] text = <<"-", "1">> -> -1]

\* What the latest message was to call setAngle with.
Routed ==
    LET mac == SanitizeMacAddress(inbound.mac) IN
    IF inbound.mac \notin DOMAIN registered THEN <<>>
    ELSE IF inbound.topic = CommandTopic(mac)
    THEN IF inbound.text = <<"O", "P", "E", "N">> THEN <<100>>
         ELSE IF inbound.text = <<"C", "L", "O", "S", "E">> THEN <<0>>
         ELSE <<>>
    ELSE IF inbound.text \in DOMAIN Spelled THEN <<Spelled[inbound.text]>>
    ELSE <<>>

C27_Routed == inbound.count > 0 => inbound.angle = Routed

\* A message that calls setAngle with nothing queues nothing.
C27_Ignored ==
    (inbound'.count = inbound.count + 1 /\ inbound'.angle = <<>>)
        => PumpUntouched

\* C27: on <prefix>/cover/M/set "OPEN" calls setAngle(100) and "CLOSE"
\* setAngle(0), any other text, "open" included, calls nothing and queues
\* nothing; on <prefix>/cover/M/tilt/set the JSON number is passed to
\* setAngle; a message for a MAC with no registered Blind queues nothing.
C27_InboundRouting == [](C27_Routed) /\ [][C27_Ignored]_allVars

\* "OPEN" was routed to setAngle(100) after "open" was ignored.
C27_Witness ==
    /\ inbound.count = 2
    /\ inbound.text = <<"O", "P", "E", "N">>
    /\ inbound.angle = <<100>>
    /\ inbound.topic = CommandTopic(SanitizeMacAddress(inbound.mac))
    /\ Len(writes) = 1

\* ------------------------------------- availability, and the shutdown
MaxSignals == 2
MaxConnectionEvents == 2

\* config.blinds, in its order.
ConfiguredBlinds ==
    <<<<"A", "A", ":", "0", "1">>, <<"B", "B", ":", "0", "2">>>>

Signals == {"SIGINT", "SIGQUIT", "SIGTERM"}

\* What calls shutdown(reason, -1).
FatalErrors == {"uncaughtException", "Application error"}

\* The process has not exited.
Alive == process.exit = "none"

\* available ? "online" : "offline"
Payload(available) == IF available THEN "online" ELSE "offline"

\* _publishBlindAvailability(blindConfig, available): the payload is handed to
\* the MQTT client for the availability topic of the address, retained.
PublishBlindAvailability(published, mac, available) ==
    [published EXCEPT ![mac] = Append(@, Payload(available))]

\* One step of the shutdown, for its history.
Did(event, mac) == [event |-> event, mac |-> mac]

\* A "device-available" for a configured address that has no Blind yet:
\* _onDeviceAvailable creates the Blind, registers it and awaits connect().
DeviceAvailable(mac) ==
    /\ Alive /\ ~isDisposed
    /\ created[mac] = "none"
    /\ created' = [created EXCEPT ![mac] = "connecting"]
    /\ UNCHANGED <<application, process, availability, shutdownLog, vars>>

\* blind.connect() settles: on an error the Blind is disposed.
ConnectSettles(mac, outcome) ==
    /\ Alive
    /\ created[mac] = "connecting"
    /\ created' = [created EXCEPT ![mac] = IF outcome = "returns" THEN "locked"
                                           ELSE "disposed"]
    /\ UNCHANGED <<application, process, availability, shutdownLog, vars>>

\* The Blind emits "unlocked": _onBlindUnlocked publishes "online", on the
\* client the Application still holds.
OnBlindUnlocked(mac) ==
    /\ Alive
    /\ created[mac] = "locked"
    /\ created' = [created EXCEPT ![mac] = "unlocked"]
    /\ availability' =
           IF application.mqttClient = "defined"
           THEN PublishBlindAvailability(availability, mac, TRUE)
           ELSE availability
    /\ UNCHANGED <<application, process, shutdownLog, vars>>

\* The Blind emits "disconnect": _onBlindDisconnected, up to its await. An
\* Application being disposed publishes nothing and disposes the Blind.
OnBlindDisconnected(mac) ==
    /\ Alive
    /\ created[mac] \in {"locked", "unlocked"}
    /\ IF ~application.isDisposed
       THEN /\ availability' = PublishBlindAvailability(availability, mac, FALSE)
            /\ created' = [created EXCEPT ![mac] = "closing"]
       ELSE /\ availability' = availability
            /\ created' = [created EXCEPT ![mac] = "disposed"]
    /\ UNCHANGED <<application, process, shutdownLog, vars>>

\* The publication of _onBlindDisconnected settles: blind.dispose(), unless
\* it was rejected.
OfflineSettles(mac, outcome) ==
    /\ Alive
    /\ created[mac] = "closing"
    /\ created' = [created EXCEPT ![mac] = IF outcome = "returns" THEN "disposed"
                                           ELSE "kept"]
    /\ UNCHANGED <<application, process, availability, shutdownLog, vars>>

\* log_conn: the MQTT client reports "on_ready" or "on_disconnect".
MqttConnection(event) ==
    /\ Alive
    /\ application.connectionEvents < MaxConnectionEvents
    /\ application' = [application EXCEPT
                          !.isMqttConnected = (event = "on_ready"),
                          !.connectionEvents = @ + 1]
    /\ UNCHANGED <<process, created, availability, shutdownLog, vars>>

\* A Blind queues a command.
BlindCommand ==
    /\ Alive
    /\ ExecuteCommand(CommandMaxRetries)
    /\ UNCHANGED appVars

PublishesOffline_Never(isMqttConnected) == FALSE

\* if (this.isMqttConnected): whether dispose() publishes "offline"
PublishesOffline(isMqttConnected) == isMqttConnected

\* The finally of the unsubscribe block of dispose()
Unsubscribed(app) ==
    [app EXCEPT !.mqttClient = "undefined", !.isMqttConnected = FALSE]

\* this.mqttClient?.disconnect()
StopMqtt(app, lg) ==
    IF app.mqttClient # "undefined"
    THEN Append(lg, Did("mqtt-disconnect", <<>>))
    ELSE lg

\* dispose() publishes "offline" for config.blinds[i] and awaits it.
PublishOffline(app, i) ==
    /\ application' = [app EXCEPT !.pc = "publishing", !.at = i]
    /\ availability' =
           PublishBlindAvailability(availability, ConfiguredBlinds[i], FALSE)
    /\ shutdownLog' = Append(shutdownLog, Did("offline", ConfiguredBlinds[i]))
    /\ UNCHANGED vars

\* dispose() past its loop: the topics are unsubscribed, the client is
\* disconnected, and deviceManager.dispose() runs up to its first await.
StopAndDisposeManager(app) ==
    LET unsubscribed == Unsubscribed(app) IN
    /\ application' = [unsubscribed EXCEPT !.pc = "tearingDown"]
    /\ shutdownLog' = Append(StopMqtt(unsubscribed, shutdownLog),
                             Did("queue-cleared", <<>>))
    /\ Dispose
    /\ UNCHANGED availability

\* dispose() from a given place of its loop on.
DisposeFrom(app, i) ==
    IF PublishesOffline(app.connectedAtDispose) /\ i <= Len(ConfiguredBlinds)
    THEN PublishOffline(app, i)
    ELSE StopAndDisposeManager(app)

\* process.exit(code), code the arguments of the call: with no argument the
\* process ends with process.exitCode, which nothing sets, that is with 0;
\* with one, with its low eight bits.
ProcessExit(code) == IF code = <<>> THEN 0 ELSE code[1] % 256

\* shutdown(reason, exitCode), entered with shuttingDown false: app.dispose()
\* up to its first await.
Shutdown(exitCode) ==
    /\ process' = [process EXCEPT !.shuttingDown = TRUE,
                                  !.shutdowns = @ + 1,
                                  !.signals = @ + 1,
                                  !.requested = <<exitCode>>]
    /\ DisposeFrom([application EXCEPT
                       !.isDisposed = TRUE,
                       !.connectedAtDispose = application.isMqttConnected], 1)
    /\ UNCHANGED created

\* The handler of a signal.
Signal(sig) ==
    /\ Alive
    /\ process.signals < MaxSignals
    /\ IF ~process.shuttingDown THEN Shutdown(0)
       ELSE /\ process' =
                   [process EXCEPT
                       !.signals = @ + 1,
                       !.exit = IF sig = "SIGINT" THEN "forced" ELSE @,
                       !.code = IF sig = "SIGINT" THEN <<ProcessExit(<<-1>>)>>
                                ELSE @]
            /\ UNCHANGED <<application, created, availability, shutdownLog,
                           vars>>

\* A fatal error: the "uncaughtException" listener, or the catch around
\* initialize() and start() in launch(), calls shutdown(reason, -1), which
\* returns at once when a shutdown is under way.
Fatal(source) ==
    /\ Alive
    /\ process.signals < MaxSignals
    /\ IF ~process.shuttingDown THEN Shutdown(-1)
       ELSE /\ process' = [process EXCEPT !.signals = @ + 1]
            /\ UNCHANGED <<application, created, availability, shutdownLog,
                           vars>>

\* A publication of dispose() settles: the next one, or the rest of
\* dispose(); rejected, it rejects dispose() and shutdown().
PublishSettles(outcome) ==
    /\ Alive
    /\ application.pc = "publishing"
    /\ IF outcome = "returns"
       THEN DisposeFrom(application, application.at + 1)
       ELSE /\ application' = [application EXCEPT !.pc = "rejected"]
            /\ UNCHANGED <<availability, shutdownLog, vars>>
    /\ UNCHANGED <<process, created>>

\* deviceManager.dispose() returns, the registered Blinds disposed, then
\* dispose() and shutdown(): process.exit().
ManagerDisposed ==
    /\ Alive
    /\ application.pc = "tearingDown"
    /\ application' = [application EXCEPT !.pc = "disposed"]
    /\ created' = [mac \in MacAddresses |->
                      IF created[mac] \in {"connecting", "locked", "unlocked"}
                      THEN "disposed" ELSE created[mac]]
    /\ shutdownLog' = shutdownLog \o <<Did("manager-disposed", <<>>),
                                       Did("exit", <<>>)>>
    /\ process' = [process EXCEPT !.exit = "shutdown",
                                  !.code = <<ProcessExit(<<>>)>>]
    /\ UNCHANGED <<availability, vars>>

ApplicationNext ==
    \/ \E mac \in MacAddresses :
           DeviceAvailable(mac) /\ UNCHANGED outsideApplication
    \/ \E mac \in MacAddresses, outcome \in Outcomes :
           ConnectSettles(mac, outcome) /\ UNCHANGED outsideApplication
    \/ \E mac \in MacAddresses :
           OnBlindUnlocked(mac) /\ UNCHANGED outsideApplication
    \/ \E mac \in MacAddresses :
           OnBlindDisconnected(mac) /\ UNCHANGED outsideApplication
    \/ \E mac \in MacAddresses, outcome \in Outcomes :
           OfflineSettles(mac, outcome) /\ UNCHANGED outsideApplication
    \/ \E event \in {"on_ready", "on_disconnect"} :
           MqttConnection(event) /\ UNCHANGED outsideApplication
    \/ BlindCommand /\ UNCHANGED outsideApplication
    \/ \E sig \in Signals : Signal(sig) /\ UNCHANGED outsideApplication
    \/ \E source \in FatalErrors : Fatal(source) /\ UNCHANGED outsideApplication
    \/ \E outcome \in Outcomes :
           PublishSettles(outcome) /\ UNCHANGED outsideApplication
    \/ ManagerDisposed /\ UNCHANGED outsideApplication

ApplicationSpec == InitUnrecorded /\ [][ApplicationNext]_allVars

\* --------------------------------------------------------------------- C28
Published(mac, payload) ==
    \E i \in DOMAIN availability[mac] : availability[mac][i] = payload

Count(mac, payload) ==
    Cardinality({i \in DOMAIN availability[mac] : availability[mac][i] = payload})

\* "online" is published in the steps in which the Blind emits "unlocked",
\* and in no other.
C28_OnlineWithUnlocked ==
    \A mac \in MacAddresses :
        (Count(mac, "online")' = Count(mac, "online") + 1)
            <=> (created[mac] = "locked" /\ created'[mac] = "unlocked")

\* A Blind that has been disposed with no shutdown under way has had its
\* "offline" published.
C28_OfflineOnDisposal ==
    \A mac \in MacAddresses :
        (created[mac] = "disposed" /\ ~process.shuttingDown)
            => Published(mac, "offline")

\* C28: "online" is published on a device's availability topic when, and only
\* when, its Blind emits "unlocked"; and with every disconnect or disposal of
\* a Blind goes an "offline" publication on that topic.
C28_Availability ==
    [](C28_OfflineOnDisposal) /\ [][~process.shuttingDown =>
                                      C28_OnlineWithUnlocked]_allVars

\* --------------------------------------------------------------------- C29
\* The shutdown has published "offline" for the address.
ShutdownPublished(mac) ==
    \E i \in DOMAIN shutdownLog : shutdownLog[i] = Did("offline", mac)

\* The shutdown has cleared the DeviceManager's queue.
QueueCleared == process.shuttingDown /\ isDisposed

First(event, mac) ==
    IF \E i \in DOMAIN shutdownLog : shutdownLog[i] = Did(event, mac)
    THEN CHOOSE i \in DOMAIN shutdownLog :
             /\ shutdownLog[i] = Did(event, mac)
             /\ \A j \in 1..(i - 1) : shutdownLog[j] # Did(event, mac)
    ELSE 0

\* The steps of a shutdown that found MQTT connected and exited: "offline"
\* for each configured device, then the MQTT client disconnected, then the
\* DeviceManager disposed, then the exit.
ShutdownInOrder ==
    LET disconnected == First("mqtt-disconnect", <<>>)
        disposed == First("manager-disposed", <<>>)
        exited == First("exit", <<>>)
    IN  /\ \A i \in DOMAIN ConfiguredBlinds :
               /\ First("offline", ConfiguredBlinds[i]) > 0
               /\ First("offline", ConfiguredBlinds[i]) < disconnected
        /\ disconnected < disposed
        /\ disposed < exited

\* C30: whatever signals arrive, the shutdown runs at most once, and one that
\* found MQTT connected and ran to its exit has published "offline" for each
\* configured device, then disconnected the MQTT client, then disposed the
\* DeviceManager, then exited; a SIGINT during the shutdown exits at once.
C30_ShutdownOnceInOrder ==
    /\ process.shutdowns <= 1
    /\ (process.exit = "shutdown" /\ application.connectedAtDispose)
           => ShutdownInOrder
    /\ process.exit = "forced" => process.shuttingDown

\* --------------------------------------------------------------------- C31
\* The shutdown that ran to its exit was asked for by a fatal error.
FatalShutdown == process.exit = "shutdown" /\ process.requested = <<-1>>

\* The shutdown that ran to its exit was asked for by a signal.
CleanShutdown == process.exit = "shutdown" /\ process.requested = <<0>>

\* C31: a shutdown that a fatal error triggered (an uncaught exception, or a
\* failure of initialize() or start()) ends the process with a non-zero exit
\* code, and a shutdown that a signal triggered ends it with the code 0.
C31_ExitCodes ==
    /\ FatalShutdown => process.code # <<0>>
    /\ CleanShutdown => process.code = <<0>>

\* ------------------------------------------------------------ the bus proxy
\* Number of calls made to the helper.
MaxBusCalls == 3

NotInitialized == <<"BusHelper", "not", "initialized">>
AlreadyInitialized == <<"BusHelper", "already", "initialized">>
PropsNotAvailable == <<"props", "not", "available">>
\* The TypeError of reading .nodes of an undefined _objectProxy
UndefinedProxy == <<"Cannot", "read", "properties", "of", "undefined">>

\* prop(), props() and set(), which await the bus inside their try
PropertyOperations == {"prop", "props", "set"}

Operations == PropertyOperations \cup {"callMethod", "getChildren"}

\* dispose()
HelperDispose(h) ==
    IF h.isDisposed THEN h
    ELSE [h EXCEPT !.isDisposed = TRUE,
                   !.isInitialized = FALSE,
                   !.listeners = 0,
                   !.propsListeners = IF h.propsProxy THEN 0 ELSE @,
                   !.objectProxy = FALSE,
                   !.propsProxy = FALSE]

\* _assertDisconnected(e): the helper it leaves; e is thrown on.
AssertDisconnected(h, msg) ==
    IF Includes(msg, NotConnected) THEN HelperDispose(h) ELSE h

\* A call that suspends, with what the helper is when it is made.
Suspended(op) ==
    [op |-> op, initialized |-> helper.isInitialized,
     disposed |-> helper.isDisposed]

\* A call made now ends now.
EndsAtOnce(op, msg) ==
    [count |-> answer.count + 1, op |-> op, outcome |-> "throws",
     raised |-> <<>>, msg |-> msg, initialized |-> helper.isInitialized,
     disposed |-> helper.isDisposed]

\* A suspended call ends.
Ends(call, outcome, raised, msg) ==
    [count |-> answer.count, op |-> call.op, outcome |-> outcome,
     raised |-> raised, msg |-> msg, initialized |-> call.initialized,
     disposed |-> call.disposed]

\* A call suspends at its await.
Suspends(op) ==
    /\ calls' = calls \cup {Suspended(op)}
    /\ answer' = [answer EXCEPT !.count = @ + 1]
    /\ UNCHANGED helper

\* initialize(), up to its first await
Initialize ==
    /\ answer.count < MaxBusCalls
    /\ IF helper.isInitialized
       THEN /\ answer' = EndsAtOnce("initialize", AlreadyInitialized)
            /\ UNCHANGED <<helper, calls>>
       ELSE Suspends("initialize")

\* The awaits of initialize() settle: the proxies are kept, the listener is
\* attached and _isInitialized set; or the catch runs _assertDisconnected.
InitializeSettles(call, outcome, msg) ==
    /\ call \in calls
    /\ call.op = "initialize"
    /\ calls' = calls \ {call}
    /\ IF outcome = "returns"
       THEN /\ helper' =
                   [helper EXCEPT
                       !.objectProxy = TRUE,
                       !.propsProxy = helper.options.useProps,
                       !.propsListeners =
                           IF /\ helper.options.useProps
                              /\ helper.options.usePropsEvents
                           THEN @ + 1 ELSE @,
                       !.isInitialized = TRUE]
            /\ answer' = Ends(call, "returns", <<>>, <<>>)
       ELSE /\ helper' = AssertDisconnected(helper, msg)
            /\ answer' = Ends(call, "throws", msg, msg)

\* prop(), props(), set(), getChildren() or callMethod(), up to its await:
\* _assertIsInitialized(), and for the properties the useProps option.
Operation(op) ==
    /\ answer.count < MaxBusCalls
    /\ IF ~helper.isInitialized
       THEN /\ answer' = EndsAtOnce(op, NotInitialized)
            /\ UNCHANGED <<helper, calls>>
       ELSE IF op \in PropertyOperations /\ ~helper.options.useProps
       THEN /\ answer' = EndsAtOnce(op, PropsNotAvailable)
            /\ UNCHANGED <<helper, calls>>
       ELSE Suspends(op)

\* The Get, GetAll or Set a property operation awaits in its try settles.
PropertySettles(call, outcome, msg) ==
    /\ call \in calls
    /\ call.op \in PropertyOperations
    /\ calls' = calls \ {call}
    /\ IF outcome = "returns"
       THEN /\ answer' = Ends(call, "returns", <<>>, <<>>)
            /\ UNCHANGED helper
       ELSE /\ helper' = AssertDisconnected(helper, msg)
            /\ answer' = Ends(call, "throws", msg, msg)

\* The promise callMethod() returned settles. The try of callMethod() holds
\* the call and not its await, so a rejection goes to the caller and not to
\* the catch.
MethodSettles(call, outcome, msg) ==
    /\ call \in calls
    /\ call.op = "callMethod"
    /\ calls' = calls \ {call}
    /\ answer' = IF outcome = "returns" THEN Ends(call, "returns", <<>>, <<>>)
                 ELSE Ends(call, "throws", msg, msg)
    /\ UNCHANGED helper

\* The refresh getChildren() awaits settles: a rejection is outside the try;
\* then the nodes of _objectProxy are read inside the try.
ChildrenSettles(call, outcome, msg) ==
    /\ call \in calls
    /\ call.op = "getChildren"
    /\ calls' = calls \ {call}
    /\ IF outcome = "throws"
       THEN /\ answer' = Ends(call, "throws", msg, msg)
            /\ UNCHANGED helper
       ELSE IF helper.objectProxy
       THEN /\ answer' = Ends(call, "returns", <<>>, <<>>)
            /\ UNCHANGED helper
       ELSE /\ helper' = AssertDisconnected(helper, UndefinedProxy)
            /\ answer' = Ends(call, "throws", UndefinedProxy, UndefinedProxy)

\* dispose(), called by the owner
DisposeHelper ==
    /\ helper' = HelperDispose(helper)
    /\ UNCHANGED <<calls, answer>>

BusInit ==
    /\ Constructed
    /\ recording = FALSE
    /\ ManagerConstructed
    /\ BridgeConstructed
    /\ BlindConstructed
    /\ MetricsConstructed
    /\ CoverConstructed
    /\ ApplicationConstructed
    /\ helper \in {NewHelper(options) : options \in HelperOptions}
    /\ calls = {}
    /\ answer = NoAnswer
    /\ owned = NewAdapter
    /\ listing = NewListing(<<>>)
    /\ subscription = NewSubscription
    /\ instance = NewInstance(1)

outsideHelper == <<owned, listing, subscription, instance, outsideBus>>

BusNext ==
    \/ Initialize /\ UNCHANGED outsideHelper
    \/ \E call \in calls, outcome \in Outcomes, msg \in ErrorMessages :
           InitializeSettles(call, outcome, msg) /\ UNCHANGED outsideHelper
    \/ \E op \in Operations :
           Operation(op) /\ UNCHANGED outsideHelper
    \/ \E call \in calls, outcome \in Outcomes, msg \in ErrorMessages :
           PropertySettles(call, outcome, msg) /\ UNCHANGED outsideHelper
    \/ \E call \in calls, outcome \in Outcomes, msg \in ErrorMessages :
           MethodSettles(call, outcome, msg) /\ UNCHANGED outsideHelper
    \/ \E call \in calls, outcome \in Outcomes, msg \in ErrorMessages :
           ChildrenSettles(call, outcome, msg) /\ UNCHANGED outsideHelper
    \/ DisposeHelper /\ UNCHANGED outsideHelper

BusSpec == BusInit /\ [][BusNext]_allVars

\* --------------------------------------------------------------------- C32
\* The latest call that ended was a property get or set, a method call or
\* children().
Operated == answer.op \in Operations

\* C32: an operation called before initialize() has completed fails with the
\* "not initialized" error; an operation called after dispose() fails; and a
\* disposed helper is not initialized and has no listener attached.
C32_InitializationGuarded ==
    /\ (Operated /\ ~answer.initialized)
           => (answer.outcome = "throws" /\ answer.msg = NotInitialized)
    /\ (Operated /\ answer.disposed) => answer.outcome = "throws"
    /\ helper.isDisposed
           => (~helper.isInitialized /\ helper.propsListeners = 0
                   /\ helper.listeners = 0)

\* --------------------------------------------------------------------- C33
\* This step ends a suspended property get, getAll, set or method call with
\* an error of the bus.
BusFailure ==
    /\ calls' # calls
    /\ calls' \subseteq calls
    /\ answer'.op \in PropertyOperations \cup {"callMethod"}
    /\ answer'.outcome = "throws"

\* C33: a failure of a property get, getAll, set or method call whose message
\* contains "Not connected" disposes the helper and reaches the caller as it
\* was raised; any other failure reaches the caller as it was raised and
\* leaves the helper as it was.
C33_NotConnectedDisposes ==
    [][BusFailure =>
           /\ answer'.msg = answer'.raised
           /\ IF Includes(answer'.raised, NotConnected)
              THEN helper'.isDisposed
              ELSE helper' = helper]_allVars

\* -------------------------------------------------- the chain of ownership
\* dispose() of an object: its flags.
Disposed(object) ==
    [object EXCEPT !.isDisposed = TRUE, !.isInitialized = FALSE,
                   !.disposal = "completed"]

\* GattService.dispose(): the characteristics the service holds, then itself.
GattServiceDispose(node) ==
    IF node.service.isDisposed THEN node
    ELSE [node EXCEPT
             !.service = Disposed(@),
             !.characteristic = IF @.made THEN Disposed(@) ELSE @]

\* GattServer.dispose(): the services the server holds, then itself.
GattServerDispose(node) ==
    IF node.server.isDisposed THEN node
    ELSE LET below == IF node.service.made THEN GattServiceDispose(node)
                      ELSE node
         IN  [below EXCEPT !.server = Disposed(@)]

\* Adapter.getDevice(uuid) for an address with no Device: the Device is made,
\* kept in _devices and initialized.
GetDevice(a) ==
    /\ owned.adapter.isInitialized
    /\ ~owned.nodes[a].device.created
    /\ owned' = [owned EXCEPT
                    !.nodes[a].device =
                        [@ EXCEPT !.created = TRUE, !.made = TRUE,
                                  !.isInitialized = TRUE, !.init = "done"]]

\* Device.getGattServer() with no GattServer yet: one is made and kept, and
\* its initialize() awaits its helper.
GetGattServer(a) ==
    /\ owned.nodes[a].device.isInitialized
    /\ ~owned.nodes[a].server.made
    /\ ~owned.nodes[a].server.created
    /\ owned' = [owned EXCEPT
                    !.nodes[a].server =
                        [@ EXCEPT !.created = TRUE, !.made = TRUE,
                                  !.init = "listing"]]

\* GattServer.initialize() has its children, or its helper has failed (as it
\* does once the server is disposed): a GattService is made and its
\* initialize() awaited.
ServerListed(a, outcome) ==
    /\ owned.nodes[a].server.init = "listing"
    /\ IF outcome = "throws" \/ owned.nodes[a].server.isDisposed
       THEN owned' = [owned EXCEPT !.nodes[a].server.init = "failed"]
       ELSE owned' = [owned EXCEPT
                         !.nodes[a].server.init = "service",
                         !.nodes[a].service =
                             [@ EXCEPT !.created = TRUE, !.init = "listing"]]

\* GattService.initialize() has its children, or its helper has failed: a
\* GattCharacteristic is made and its initialize() awaited.
ServiceListed(a, outcome) ==
    /\ owned.nodes[a].service.init = "listing"
    /\ IF outcome = "throws" \/ owned.nodes[a].service.isDisposed
       THEN owned' = [owned EXCEPT !.nodes[a].service.init = "failed",
                                   !.nodes[a].server.init = "failed"]
       ELSE owned' = [owned EXCEPT
                         !.nodes[a].service.init = "characteristic",
                         !.nodes[a].characteristic =
                             [@ EXCEPT !.created = TRUE, !.init = "pending"]]

\* GattCharacteristic.initialize() settles: the service keeps the
\* characteristic and is initialized, and the server keeps the service and is
\* initialized; or both initialize() reject.
CharacteristicInitialized(a, outcome) ==
    /\ owned.nodes[a].characteristic.init = "pending"
    /\ IF outcome = "throws"
       THEN owned' = [owned EXCEPT
                         !.nodes[a].characteristic.init = "failed",
                         !.nodes[a].service.init = "failed",
                         !.nodes[a].server.init = "failed"]
       ELSE owned' = [owned EXCEPT
                         !.nodes[a].characteristic =
                             [@ EXCEPT !.made = TRUE, !.isInitialized = TRUE,
                                       !.init = "done"],
                         !.nodes[a].service =
                             [@ EXCEPT !.made = TRUE, !.isInitialized = TRUE,
                                       !.init = "done"],
                         !.nodes[a].server =
                             [@ EXCEPT !.isInitialized = TRUE,
                                       !.init = "done"]]

\* Device.dispose(), up to its await of disconnect(): "disposing" takes the
\* Device out of the Adapter's _devices; the GattServer it holds is disposed
\* and let go.
DeviceDispose(a) ==
    LET node == owned.nodes[a]
        below == IF node.server.made THEN GattServerDispose(node) ELSE node
    IN  /\ node.device.created
        /\ ~node.device.isDisposed
        /\ owned' = [owned EXCEPT
                        !.nodes[a] =
                            [below EXCEPT
                                !.device = [@ EXCEPT !.isDisposed = TRUE,
                                                     !.isInitialized = FALSE,
                                                     !.made = FALSE,
                                                     !.disposal = "pending"],
                                !.server = [@ EXCEPT !.made = FALSE]]]

\* The disconnect() that Device.dispose() awaits settles, its error ignored:
\* the helper is disposed and dispose() has completed.
DisconnectSettles(a) ==
    /\ owned.nodes[a].device.disposal = "pending"
    /\ owned' = [owned EXCEPT !.nodes[a].device.disposal = "completed"]

\* Adapter.dispose()
AdapterDispose ==
    /\ ~owned.adapter.isDisposed
    /\ owned' = [owned EXCEPT !.adapter = Disposed(@)]

outsideOwnership ==
    <<helper, calls, answer, listing, subscription, instance, outsideBus>>

OwnershipNext ==
    \/ \E a \in Addresses : GetDevice(a) /\ UNCHANGED outsideOwnership
    \/ \E a \in Addresses : GetGattServer(a) /\ UNCHANGED outsideOwnership
    \/ \E a \in Addresses, outcome \in Outcomes :
           ServerListed(a, outcome) /\ UNCHANGED outsideOwnership
    \/ \E a \in Addresses, outcome \in Outcomes :
           ServiceListed(a, outcome) /\ UNCHANGED outsideOwnership
    \/ \E a \in Addresses, outcome \in Outcomes :
           CharacteristicInitialized(a, outcome) /\ UNCHANGED outsideOwnership
    \/ \E a \in Addresses : DeviceDispose(a) /\ UNCHANGED outsideOwnership
    \/ \E a \in Addresses : DisconnectSettles(a) /\ UNCHANGED outsideOwnership
    \/ AdapterDispose /\ UNCHANGED outsideOwnership

OwnershipSpec == InitUnrecorded /\ [][OwnershipNext]_allVars

\* --------------------------------------------------------------------- C35
\* Every object the parent holds is disposed.
ChildrenDisposed(a) ==
    LET node == owned.nodes[a]
    IN  /\ node.server.isDisposed
            => (node.service.made => node.service.isDisposed)
        /\ node.service.isDisposed
            => (node.characteristic.made => node.characteristic.isDisposed)
        /\ node.device.disposal = "completed"
            => /\ node.server.created => node.server.isDisposed
               /\ node.service.made => node.service.isDisposed
               /\ node.characteristic.made => node.characteristic.isDisposed

\* C35: when dispose() of an Adapter has completed every Device it holds is
\* disposed; when dispose() of a Device has completed its GattServer, the
\* services and the characteristics are; a disposed GattServer holds only
\* disposed services and a disposed GattService only disposed characteristics.
C35_DisposalCascades ==
    /\ owned.adapter.disposal = "completed"
           => \A a \in Addresses :
                  owned.nodes[a].device.made
                      => owned.nodes[a].device.isDisposed
    /\ \A a \in Addresses : ChildrenDisposed(a)

\* ---------------------------------------------------- the list of adapters
\* Number of adapters BlueZ may expose.
MaxAdapters == 3

\* "/org/bluez", the object of the Bluetooth helper
RootPath == <<"/", "o", "r", "g", "/", "b", "l", "u", "e", "z">>

\* "hci0", "hci1", ...
AdapterName(i) == <<"h", "c", "i", Digits[i]>>

\* The object paths of an adapter and of a device below it.
AdapterNode(i) == RootPath \o <<"/">> \o AdapterName(i)
DeviceNode(i) == AdapterNode(i) \o <<"/", "d", "e", "v">>

\* The nodes of the root object: per adapter none, its node, or its node and
\* a node below it, in the order of the adapters.
RECURSIVE NodeLists(_)
NodeLists(n) ==
    IF n = 0 THEN {<<>>}
    ELSE {front \o here :
              front \in NodeLists(n - 1),
              here \in {<<>>, <<AdapterNode(n)>>,
                        <<AdapterNode(n), DeviceNode(n)>>}}

BluetoothNotInitialized == <<"Bluetooth", "not", "initialized">>

\* String.prototype.startsWith
StartsWith(text, prefix) ==
    /\ Len(text) >= Len(prefix)
    /\ SubSeq(text, 1, Len(prefix)) = prefix

\* String.prototype.indexOf(ch, from), positions counted from 0; -1 if none.
IndexOf(text, ch, from) ==
    LET hits == {k \in 0..(Len(text) - 1) : k >= from /\ text[k + 1] = ch}
    IN  IF hits = {} THEN -1
        ELSE CHOOSE k \in hits : \A other \in hits : k <= other

\* String.prototype.substring(start, end), positions counted from 0.
Substring(text, start, end) ==
    LET first == IF start > Len(text) THEN Len(text) ELSE start
        last == IF end > Len(text) THEN Len(text) ELSE end
    IN  SubSeq(text, first + 1, last)

\* The name buildChildren takes from a node, empty if it takes none.
ChildOf(path, node) ==
    IF ~StartsWith(node, path) THEN <<>>
    ELSE LET end == IndexOf(node, "/", Len(path) + 1)
         IN  IF end >= 0 THEN Substring(node, Len(path) + 1, end)
             ELSE Substring(node, Len(path) + 1, Len(node))

\* Whether a name is among the children found so far.
Among(children, name) == \E i \in DOMAIN children : children[i] = name

\* BusHelper.buildChildren(path, nodes): the first names below the path, each
\* once, in the order they are met.
RECURSIVE BuildChildrenFrom(_, _, _)
BuildChildrenFrom(path, nodes, children) ==
    IF nodes = <<>> THEN children
    ELSE LET sub == ChildOf(path, Head(nodes))
         IN  BuildChildrenFrom(
                 path, Tail(nodes),
                 IF Len(sub) < 1 \/ Among(children, sub) THEN children
                 ELSE Append(children, sub))

BuildChildren(path, nodes) ==
    BuildChildrenFrom(IF path = <<"/">> THEN <<>> ELSE path, nodes, <<>>)

\* deviceManager.initialize(): bluetooth.initialize()
ManagerInitialize ==
    /\ listing.pc = "idle"
    /\ ~listing.isInitialized
    /\ listing' = [listing EXCEPT !.isInitialized = TRUE]

\* deviceManager.getAdapters(): Bluetooth.getAdapters() asserts that it is
\* initialized and returns the children of its helper.
GetAdapters(l) ==
    IF l.isInitialized
    THEN [l EXCEPT !.outcome = "returns",
                   !.adapters = BuildChildren(RootPath, l.nodes),
                   !.error = <<>>]
    ELSE [l EXCEPT !.outcome = "throws",
                   !.adapters = <<>>,
                   !.error = BluetoothNotInitialized]

\* A caller that has initialized the DeviceManager asks for the adapters.
AdaptersAsked ==
    /\ listing.pc = "idle"
    /\ listing.isInitialized
    /\ listing.outcome = "none"
    /\ listing' = GetAdapters(listing)

\* ListAdaptersAction.onExecute(), up to its await: a DeviceManager is
\* constructed and getAdapters() called.
Execute ==
    /\ listing.pc = "idle"
    /\ listing.outcome = "none"
    /\ ~listing.isInitialized
    /\ listing' = [GetAdapters(NewListing(listing.nodes)) EXCEPT
                      !.pc = "awaiting"]

\* getAdapters() settles: the adapters are printed, or the catch prints the
\* error; the finally awaits deviceManager.dispose().
GetAdaptersSettles ==
    /\ listing.pc = "awaiting"
    /\ listing' =
           [listing EXCEPT
               !.pc = "disposing",
               !.printed = IF listing.outcome = "returns"
                           THEN listing.adapters
                           ELSE <<listing.error>>]

\* deviceManager.dispose() settles and onExecute() returns.
ListingDisposed ==
    /\ listing.pc = "disposing"
    /\ listing' = [listing EXCEPT !.pc = "done", !.isInitialized = FALSE]

AdaptersInit ==
    /\ Constructed
    /\ recording = FALSE
    /\ ManagerConstructed
    /\ BridgeConstructed
    /\ BlindConstructed
    /\ MetricsConstructed
    /\ CoverConstructed
    /\ ApplicationConstructed
    /\ helper = NewHelper([useProps |-> TRUE, usePropsEvents |-> TRUE])
    /\ calls = {}
    /\ answer = NoAnswer
    /\ owned = NewAdapter
    /\ subscription = NewSubscription
    /\ instance = NewInstance(1)
    /\ listing \in {NewListing(nodes) : nodes \in NodeLists(MaxAdapters)}

outsideAdapters ==
    <<helper, calls, answer, owned, subscription, instance, outsideBus>>

AdaptersNext ==
    \/ ManagerInitialize /\ UNCHANGED outsideAdapters
    \/ AdaptersAsked /\ UNCHANGED outsideAdapters
    \/ Execute /\ UNCHANGED outsideAdapters
    \/ GetAdaptersSettles /\ UNCHANGED outsideAdapters
    \/ ListingDisposed /\ UNCHANGED outsideAdapters

AdaptersSpec == AdaptersInit /\ [][AdaptersNext]_allVars

\* --------------------------------------------------------------------- C36
\* The adapters BlueZ exposes: the names whose node is below the root path.
AdaptersFound ==
    {AdapterName(i) : i \in {j \in 1..MaxAdapters :
                                 Among(listing.nodes, AdapterNode(j))}}

\* The names in a list.
Names(list) == {list[i] : i \in DOMAIN list}

\* C36: getAdapters() returns the names of the adapters found under the root
\* path, each once; and the list-adapters subcommand, when it has run, has
\* printed those adapters.
C36_AdaptersListed ==
    /\ listing.outcome = "returns"
           => /\ Names(listing.adapters) = AdaptersFound
              /\ Len(listing.adapters) = Cardinality(AdaptersFound)
    /\ listing.pc = "done" => Names(listing.printed) = AdaptersFound

\* ------------------------------------------------------- the subscriptions
\* Number of "connect" signals of the Device.
MaxConnectSignals == 2
\* Number of notifications of the characteristic.
MaxValueChanges == 2

\* GattCharacteristic.stopNotifications(), its finally:
\* removeAllListeners("properties-changed") on the helper.
StopNotificationsEnds(sub) ==
    [sub EXCEPT !.helperListeners = 0, !.stopping = FALSE]

\* GattCharacteristic.dispose(): its listeners are removed and its helper is
\* disposed.
CharacteristicDispose(sub) ==
    [sub EXCEPT !.isDisposed = TRUE, !.valueListeners = 0,
                !.helperListeners = 0]

\* BlueZ reports Connected = true and the Device emits "connect":
\* Blind.onParentConnect() takes the characteristic from the GattServer the
\* Device keeps, adds its "value-changed" listener and awaits
\* startNotifications(), which awaits StartNotify.
ConnectSignal ==
    /\ subscription.connects < MaxConnectSignals
    /\ ~subscription.connected
    /\ subscription.blind # "disposed"
    /\ subscription' =
           [subscription EXCEPT
               !.connected = TRUE,
               !.connects = @ + 1,
               !.bound = TRUE,
               !.valueListeners = @ + 1,
               !.starts = @ + 1]

\* StartNotify settles: startNotifications() adds onPropertiesChanged to the
\* helper; or it throws, and the catch of onParentConnect() disconnects, which
\* stops the notifications of the characteristics the Blind holds.
StartNotifySettles(outcome) ==
    /\ subscription.starts > 0
    /\ subscription' =
           IF outcome = "returns"
           THEN [subscription EXCEPT !.starts = @ - 1,
                                     !.helperListeners = @ + 1]
           ELSE [subscription EXCEPT
                    !.starts = @ - 1,
                    !.stopping = subscription.bound /\ ~subscription.isDisposed]

\* StopNotify settles, whatever way: the finally of stopNotifications(), then
\* _clearCharacteristics().
StopNotifySettles ==
    /\ subscription.stopping
    /\ subscription' = [StopNotificationsEnds(subscription) EXCEPT
                           !.bound = FALSE]

\* BlueZ reports Connected = false and the Device emits "disconnect": the
\* Blind emits it on, and _onBlindDisconnected awaits the "offline".
DisconnectSignal ==
    /\ subscription.connected
    /\ subscription.blind # "disposed"
    /\ subscription' =
           [subscription EXCEPT
               !.connected = FALSE,
               !.blind = IF @ = "live" THEN "closing" ELSE @]

\* The "offline" of _onBlindDisconnected settles: blind.dispose(), which
\* stops the notifications and disposes the Device, its GattServer and the
\* characteristic; rejected, the handler ends there.
OfflinePublished(outcome) ==
    /\ subscription.blind = "closing"
    /\ subscription' =
           IF outcome = "returns"
           THEN [CharacteristicDispose(StopNotificationsEnds(subscription))
                    EXCEPT !.blind = "disposed", !.bound = FALSE]
           ELSE [subscription EXCEPT !.blind = "kept"]

\* The characteristic notifies a value: every "properties-changed" listener
\* of the helper emits "value-changed", which every listener of the
\* characteristic gets.
ValueChanged ==
    /\ subscription.notified < MaxValueChanges
    /\ ~subscription.isDisposed
    /\ subscription' =
           [subscription EXCEPT
               !.notified = @ + 1,
               !.deliveries = subscription.helperListeners
                                  * subscription.valueListeners]

outsideSubscription ==
    <<helper, calls, answer, owned, listing, instance, outsideBus>>

SubscriptionNext ==
    \/ ConnectSignal /\ UNCHANGED outsideSubscription
    \/ \E outcome \in Outcomes :
           StartNotifySettles(outcome) /\ UNCHANGED outsideSubscription
    \/ StopNotifySettles /\ UNCHANGED outsideSubscription
    \/ DisconnectSignal /\ UNCHANGED outsideSubscription
    \/ \E outcome \in Outcomes :
           OfflinePublished(outcome) /\ UNCHANGED outsideSubscription
    \/ ValueChanged /\ UNCHANGED outsideSubscription

SubscriptionSpec == InitUnrecorded /\ [][SubscriptionNext]_allVars

\* --------------------------------------------------------------------- C34
\* C34: the characteristic has at most one notification listener, on itself
\* and on its helper, and a notification reaches the Blind at most once.
C34_OneSubscription ==
    /\ subscription.valueListeners <= 1
    /\ subscription.helperListeners <= 1
    /\ subscription.deliveries <= 1

\* --------------------------------------------------------------------- C37
\* The passkey an unlock attempt is to write: the configured text and "01"
\* if it has twelve characters, else the text without its first two
\* characters and "01"; written as bytes, in request mode.
EncodedPasskey ==
    LET text == blind.blindPasskey IN
    [value |-> BufferFromHex(IF Len(text) = 12
                             THEN text \o <<"0", "1">>
                             ELSE SubSeq(text, 3, Len(text)) \o <<"0", "1">>),
     offset |-> 0,
     type |-> "request"]

\* The read of an unlock attempt is queued only once the write the attempt
\* queued has completed.
ReadAfterWrite(unlock) ==
    unlock.read # 0 =>
        /\ unlock.write \in observed.completed
        /\ unlock.write < unlock.read

\* Every write to the Passkey characteristic is of the encoded passkey.
WritesEncodedPasskey ==
    \A w \in DOMAIN observed.writes : observed.writes[w] = EncodedPasskey

\* C37: each unlock attempt enqueues first a request-mode write of the
\* encoded passkey and, only after that write has completed, a read of the
\* Passkey characteristic.
C37_WriteThenRead ==
    /\ \A k \in DOMAIN observed.unlocks :
           /\ observed.unlocks[k].write # 0
           /\ ReadAfterWrite(observed.unlocks[k])
    /\ WritesEncodedPasskey

\* C37, amended: each unlock attempt made while the Blind holds the Passkey
\* characteristic enqueues first a request-mode write of the encoded passkey
\* and, only after that write has completed, a read of the Passkey
\* characteristic.
C37_WriteThenReadIfBound ==
    /\ \A k \in DOMAIN observed.unlocks :
           observed.unlocks[k].bound =>
               /\ observed.unlocks[k].write # 0
               /\ ReadAfterWrite(observed.unlocks[k])
    /\ WritesEncodedPasskey

\* An attempt of a Blind with a passkey of twelve characters wrote it and
\* then queued its read.
C37_Witness ==
    /\ blind.blindPasskey = TwelveDigits
    /\ observed.writes # <<>>
    /\ \E k \in DOMAIN observed.unlocks :
           /\ observed.unlocks[k].bound
           /\ observed.unlocks[k].read # 0

\* ------------------------------------------- one Blind and its disposals
\* Number of dispose() calls on the Blind.
MaxBlindDisposals == 3

Listens(i, event, handler) == On(event, handler) \in i.listeners

\* DeviceManager.removeDevice(device): its three removeListener() calls, the
\* third of which names onDeviceDisconnected for "dispose".
RemoveListeners(listeners) ==
    listeners \ {On("connect", "onDeviceConnected"),
                 On("disconnect", "onDeviceDisconnected"),
                 On("dispose", "onDeviceDisconnected")}

\* A dispose() that leaves the listeners attached.
RemoveAllListeners_None(listeners) == listeners

\* EventEmitter.removeAllListeners()
RemoveAllListeners(listeners) == {}

\* onDeviceDispose reconnecting whether the manager is disposed or not.
ReconnectsOnDispose_Always(disposed) == TRUE

\* onDeviceDispose: if (!this.isDisposed)
ReconnectsOnDispose(disposed) == ~disposed

\* Blind.dispose() up to its first await, of _stopNotifications().
BlindDisposeCalled(i) ==
    [i EXCEPT !.disposes = Append(@, "stopNotifications")]

\* Nothing is scheduled.
Unscheduled ==
    UNCHANGED <<connectRetryCounts, scheduled, commandAddress, waitFrames, vars>>

\* A started manager with one Blind registered, connecting; the adapter has
\* the devices or has none, and the address has been reconnected some number
\* of times already.
ReconnectInit ==
    /\ Constructed
    /\ recording = FALSE
    /\ bluetooth = "defined"
    /\ adapter = "ready"
    /\ discovering = FALSE
    /\ disposeFrames = <<>>
    /\ tornDown = {}
    /\ maxConnectRetries \in -1..MaxConnectRetries
    /\ desiredDevices = Addresses
    /\ availableDeviceUuids \in {{}, Addresses}
    /\ blinds = [a \in Addresses |-> NoBlinds]
    /\ pendingAdded = {}
    /\ commandAddress = <<>>
    /\ waitFrames = <<>>
    /\ adapterChanges = 0
    /\ scheduled = [a \in Addresses |-> 0]
    /\ notified = {}
    /\ BlindConstructed
    /\ MetricsConstructed
    /\ CoverConstructed
    /\ ApplicationConstructed
    /\ helper = NewHelper([useProps |-> TRUE, usePropsEvents |-> TRUE])
    /\ calls = {}
    /\ answer = NoAnswer
    /\ owned = NewAdapter
    /\ listing = NewListing(<<>>)
    /\ subscription = NewSubscription
    /\ instance = NewInstance(1)
    /\ devices = {instance.address}
    /\ \E count \in 0..(MaxConnectRetries + 1) :
           connectRetryCounts = [a \in Addresses |->
                                     IF a = instance.address THEN count ELSE 0]

\* blind.connect() settles: connected, or the catch of _onDeviceAvailable
\* disposes the Blind.
BlindConnectSettles(outcome) ==
    /\ instance.connection = "connecting"
    /\ ~instance.parentDisposed
    /\ instance' =
           IF outcome = "returns"
           THEN [instance EXCEPT !.connection = "connected",
                                 !.signals = @ + 1]
           ELSE BlindDisposeCalled(
                    [instance EXCEPT !.connection = "disconnected"])
    /\ UNCHANGED devices
    /\ Unscheduled

\* BlueZ reports Connected = false: the Blind emits "disconnect". The manager,
\* if it listens, unregisters the Blind (onDeviceDisconnected); the
\* Application awaits the "offline" publication, or, being disposed, calls
\* blind.dispose() at once (_onBlindDisconnected).
DeviceDisconnects ==
    /\ instance.connection = "connected"
    /\ ~instance.parentDisposed
    /\ Len(instance.disposes) < MaxBlindDisposals
    /\ LET a == instance.address
           watched == Listens(instance, "disconnect", "onDeviceDisconnected")
           heard == Listens(instance, "disconnect", "_onBlindDisconnected")
           after ==
               [instance EXCEPT
                   !.connection = "disconnected",
                   !.listeners = IF watched THEN RemoveListeners(@) ELSE @,
                   !.unregistered = @ \/ watched,
                   !.signalled =
                       @ \/ /\ watched
                            /\ ~instance.shuttingDown
                            /\ ShouldReconnect(maxConnectRetries,
                                               connectRetryCounts[a])]
       IN  /\ devices' = IF watched THEN RemoveDevice(devices, a)
                         ELSE devices
           /\ instance' =
                  IF ~heard THEN after
                  ELSE IF instance.shuttingDown THEN BlindDisposeCalled(after)
                  ELSE [after EXCEPT !.publishing = @ + 1]
    /\ Unscheduled

\* BlueZ reports Connected = true again for a Device not yet disposed.
DeviceReconnects ==
    /\ instance.connection = "disconnected"
    /\ ~instance.parentDisposed
    /\ instance.signals < MaxConnectSignals
    /\ instance' = [instance EXCEPT !.connection = "connected",
                                    !.signals = @ + 1]
    /\ UNCHANGED devices
    /\ Unscheduled

\* The "offline" publication of _onBlindDisconnected settles: blind.dispose()
\* is called; rejected, the handler ends without it.
OfflinePublicationSettles(outcome) ==
    /\ instance.publishing > 0
    /\ Len(instance.disposes) < MaxBlindDisposals
    /\ instance' =
           IF outcome = "returns"
           THEN BlindDisposeCalled([instance EXCEPT !.publishing = @ - 1])
           ELSE [instance EXCEPT !.publishing = @ - 1]
    /\ UNCHANGED devices
    /\ Unscheduled

\* Blind.dispose() resumes after _stopNotifications(): DeviceBase.dispose()
\* emits "dispose", on which onDeviceDispose, if it listens, runs
\* removeDevice(); then it removes the Blind's listeners and disposes the
\* Device, which is awaited.
BlindDisposeResumes(k) ==
    /\ instance.disposes[k] = "stopNotifications"
    /\ LET handled == Listens(instance, "dispose", "onDeviceDispose") IN
       /\ instance' =
              [instance EXCEPT
                  !.disposes[k] = "parentDispose",
                  !.handlers = IF handled THEN @ + 1 ELSE @,
                  !.listeners = RemoveAllListeners(
                                    IF handled THEN RemoveListeners(@) ELSE @),
                  !.parentDisposed = TRUE]
       /\ devices' = IF handled THEN RemoveDevice(devices, instance.address)
                     ELSE devices
    /\ Unscheduled

\* parent.dispose() settles, its error caught: Blind.dispose() removes the
\* listeners and returns.
ParentDisposeSettles(k) ==
    /\ instance.disposes[k] = "parentDispose"
    /\ instance' = [instance EXCEPT
                       !.disposes[k] = "done",
                       !.listeners = RemoveAllListeners(@)]
    /\ UNCHANGED devices
    /\ Unscheduled

\* onDeviceDispose resumes after removeDevice(): reconnectDevice(address)
\* unless the manager is disposed.
OnDeviceDisposeResumes ==
    /\ instance.handlers > 0
    /\ IF ReconnectsOnDispose(isDisposed)
       THEN /\ instance' = [instance EXCEPT !.handlers = @ - 1,
                                            !.reconnects = @ + 1]
            /\ ReconnectDevice(instance.address, devices)
       ELSE /\ instance' = [instance EXCEPT !.handlers = @ - 1,
                                            !.skipped = @ + 1]
            /\ Unscheduled
    /\ UNCHANGED devices

\* Application.dispose() is called: isDisposed is set.
ShutdownBegins ==
    /\ ~instance.shuttingDown
    /\ instance' = [instance EXCEPT !.shuttingDown = TRUE]
    /\ UNCHANGED devices
    /\ Unscheduled

\* Application.dispose() calls DeviceManager.dispose(): the latch and the
\* queue, then the await of getIsDiscovering().
ManagerDisposeEnters ==
    /\ instance.shuttingDown
    /\ instance.managerDispose = "none"
    /\ Dispose
    /\ instance' = [instance EXCEPT !.managerDispose = "discovery"]
    /\ UNCHANGED <<devices, connectRetryCounts, scheduled, commandAddress,
                   waitFrames>>

\* DeviceManager.dispose() reaches its loop: a Blind still registered is
\* disposed, which is awaited.
ManagerDisposesDevices ==
    /\ instance.managerDispose = "discovery"
    /\ Len(instance.disposes) < MaxBlindDisposals
    /\ instance' =
           IF instance.address \in devices
           THEN BlindDisposeCalled(
                    [instance EXCEPT !.managerDispose = "devices"])
           ELSE [instance EXCEPT !.managerDispose = "devices"]
    /\ UNCHANGED devices
    /\ Unscheduled

\* DeviceManager.dispose() goes on after the loop: the registry is emptied.
ManagerDisposeEnds ==
    /\ instance.managerDispose = "devices"
    /\ \A k \in DOMAIN instance.disposes : instance.disposes[k] = "done"
    /\ instance' = [instance EXCEPT !.managerDispose = "done"]
    /\ devices' = {}
    /\ Unscheduled

outsideReconnect ==
    <<bluetooth, adapter, discovering, disposeFrames, tornDown,
      maxConnectRetries, desiredDevices, availableDeviceUuids, blinds,
      pendingAdded, adapterChanges, notified, unlockVars, metricVars,
      coverVars, appVars, helper, calls, answer, owned, listing,
      subscription>>

ReconnectNext ==
    \/ \E outcome \in Outcomes :
           BlindConnectSettles(outcome) /\ UNCHANGED outsideReconnect
    \/ DeviceDisconnects /\ UNCHANGED outsideReconnect
    \/ DeviceReconnects /\ UNCHANGED outsideReconnect
    \/ \E outcome \in Outcomes :
           OfflinePublicationSettles(outcome) /\ UNCHANGED outsideReconnect
    \/ \E k \in DOMAIN instance.disposes :
           BlindDisposeResumes(k) /\ UNCHANGED outsideReconnect
    \/ \E k \in DOMAIN instance.disposes :
           ParentDisposeSettles(k) /\ UNCHANGED outsideReconnect
    \/ OnDeviceDisposeResumes /\ UNCHANGED outsideReconnect
    \/ ShutdownBegins /\ UNCHANGED outsideReconnect
    \/ ManagerDisposeEnters /\ UNCHANGED outsideReconnect
    \/ ManagerDisposesDevices /\ UNCHANGED outsideReconnect
    \/ ManagerDisposeEnds /\ UNCHANGED outsideReconnect

ReconnectSpec == ReconnectInit /\ [][ReconnectNext]_allVars

\* Every awaited call settles and every suspended call resumes.
Settling ==
    \/ \E outcome \in Outcomes :
           OfflinePublicationSettles(outcome) /\ UNCHANGED outsideReconnect
    \/ \E k \in DOMAIN instance.disposes :
           BlindDisposeResumes(k) /\ UNCHANGED outsideReconnect
    \/ \E k \in DOMAIN instance.disposes :
           ParentDisposeSettles(k) /\ UNCHANGED outsideReconnect
    \/ OnDeviceDisposeResumes /\ UNCHANGED outsideReconnect

FairReconnectSpec ==
    /\ ReconnectInit
    /\ [][ReconnectNext]_allVars
    /\ WF_allVars(Settling)

\* --------------------------------------------------------------------- C38
\* C38: a disconnect signalled by the Device of a registered Blind, no
\* shutdown begun and the retry cap of the address not exhausted, leads to a
\* call of reconnectDevice for the address (or to a shutdown), whatever the
\* outcome of the "offline" publication.
C38_DisconnectReconnects ==
    instance.signalled ~> (instance.reconnects > 0 \/ instance.shuttingDown)

\* --------------------------------------------------------------------- C39
\* C39: one Blind triggers at most one reconnectDevice call, however many
\* times its dispose() is called.
C39_OneReconnectPerBlind == instance.reconnects <= 1

\* A Blind unregistered by removeDevice() on its disconnect was then disposed
\* twice, both calls come to their end, with one reconnectDevice call.
C39_Witness ==
    /\ instance.unregistered
    /\ instance.reconnects = 1
    /\ Len(instance.disposes) >= 2
    /\ \A k \in DOMAIN instance.disposes : instance.disposes[k] = "done"
    /\ instance.handlers = 0

\* --------------------------------------------------------------------- C40
\* C40: once DeviceManager.dispose() has been called, no step increments a
\* retry counter, enqueues a command or enters waitUntilDevicesFound().
C40_NoReconnectAfterDispose ==
    [][isDisposed' =>
           /\ connectRetryCounts' = connectRetryCounts
           /\ scheduled' = scheduled
           /\ commandCount' = commandCount
           /\ commandAddress' = commandAddress
           /\ waitFrames' = waitFrames]_allVars

\* The manager disposed a registered Blind during the shutdown, and
\* onDeviceDispose found the manager disposed.
C40_Witness ==
    /\ isDisposed
    /\ instance.managerDispose = "done"
    /\ instance.skipped > 0
    /\ ~instance.unregistered

====
